---- MODULE Spec2Model ----
(***************************************************************************)
(* Verification model of the LaTeX -> MDX/KaTeX converter.                 *)
(*                                                                         *)
(* Documents are TLA+ strings.  Offsets are 0-based, as in the Python      *)
(* source: Ch(s, i) is s[i] and Slice(s, a, b) is s[a:b].                  *)
(***************************************************************************)
EXTENDS Integers, Sequences, FiniteSets, TLC

VARIABLES
    pc,                 \* position of the running operation
    input,              \* the text the operation was called with
    content,            \* the text buffer threaded through the passes
    protected_blocks,   \* MathConverter.protect_existing_math: protected_blocks
    restore_i,          \* restore_protected_math: loop index i
    start_pos,          \* extract_title_with_nested_braces: start_pos
    title_i,            \* extract_title_with_nested_braces: i
    depth,              \* extract_title_with_nested_braces: depth
    title_chars,        \* extract_title_with_nested_braces: title_chars
    depth_arg,          \* BoxConverter.convert: max_depth of the outermost call
    stack,              \* BoxConverter.convert: the active calls, innermost last
    retval,             \* BoxConverter.convert: the value a call has returned
    converter,          \* TikzConverter: the converter detected on the system
    raised,             \* TexToMdxParser.parse: the exception that ended the call
    metadata,           \* TexToMdxParser.parse: metadata
    title_slug,         \* TexToMdxParser.parse: title_slug
    tikz_blocks,        \* TikzConverter.convert_content: tikz_blocks
    tikz_i,             \* TikzConverter.convert_content: position in tikz_blocks
    image_counter,      \* TikzConverter: image_counter
    svg_filenames,      \* TikzConverter.convert_content: svg_filenames
    iteration,          \* StructureConverter.convert_lists: iteration
    old_content,        \* StructureConverter.convert_lists: old_content
    runs,               \* the calls of parse running in parallel, one per instance
    files,              \* the output directory ./images: file name -> picture
    call,               \* which call of MathConverter.convert is running
    first_result        \* what the first call of MathConverter.convert returned

mathVars == <<content, protected_blocks, restore_i>>
titleVars == <<start_pos, title_i, depth, title_chars>>
boxVars == <<depth_arg, stack, retval>>
tikzVars == <<tikz_blocks, tikz_i, image_counter, svg_filenames>>
parseVars == <<converter, raised, metadata, title_slug, tikzVars>>
listVars == <<iteration, old_content>>
runVars == <<runs, files>>
convVars == <<call, first_result>>
extVars == <<listVars, runVars, convVars>>
vars == <<pc, input, mathVars, titleVars, boxVars, parseVars, extVars>>

(***************************************************************************)
(* Bounds of the model.                                                    *)
(***************************************************************************)
MaxMathPieces == 5
MaxSpanPieces == 4
MaxTitlePieces == 6
MaxBoxPieces == 3
MaxSmallDepth == 1
MaxStructPieces == 4
MaxParsePieces == 3
MaxListItems == 3
MaxTikzPieces == 3
MaxConvPieces == 3

(***************************************************************************)
(* Python string primitives.                                               *)
(***************************************************************************)
Min(S) == CHOOSE x \in S : \A y \in S : x <= y

\* s[i], or "" when i is outside the string (what a look-around sees there)
Ch(s, i) == IF i >= 0 /\ i < Len(s) THEN SubSeq(s, i + 1, i + 1) ELSE ""

\* s[a:b] for 0 <= a, b
Slice(s, a, b) ==
    LET hi == IF b > Len(s) THEN Len(s) ELSE b
    IN  IF a >= hi THEN "" ELSE SubSeq(s, a + 1, hi)

\* s[a:]
SliceFrom(s, a) == Slice(s, a, Len(s))

\* s.startswith(lit, i)
StartsAt(s, i, lit) ==
    /\ i >= 0
    /\ i + Len(lit) <= Len(s)
    /\ SubSeq(s, i + 1, i + Len(lit)) = lit

\* s.find(lit, from): the first offset >= from where lit occurs, or -1
Find(s, lit, from) ==
    LET hits == {i \in from..(Len(s) - Len(lit)) : SubSeq(s, i + 1, i + Len(lit)) = lit}
    IN  IF hits = {} THEN -1 ELSE Min(hits)

\* s.replace(old, new): every non-overlapping occurrence, left to right
RECURSIVE StrReplace(_, _, _)
StrReplace(s, old, new) ==
    LET i == Find(s, old, 0)
    IN  IF i = -1 THEN s
        ELSE Slice(s, 0, i) \o new \o StrReplace(SliceFrom(s, i + Len(old)), old, new)

\* s.count(lit): number of non-overlapping occurrences
RECURSIVE StrCount(_, _)
StrCount(s, lit) ==
    LET i == Find(s, lit, 0)
    IN  IF i = -1 THEN 0 ELSE 1 + StrCount(SliceFrom(s, i + Len(lit)), lit)

\* ''.join(parts)
RECURSIVE Join(_)
Join(parts) == IF parts = <<>> THEN "" ELSE Head(parts) \o Join(Tail(parts))

(***************************************************************************)
(* MathConverter (math_converter.py).                                      *)
(***************************************************************************)
BS == "\\"

\* f"__PROTECTED_MATH_{i}__"
Placeholder(i) == "__PROTECTED_MATH_" \o ToString(i) \o "__"

\* already_display_pattern = (?<!\\)\$\$(.*?)(\\\\)?\$\$  (DOTALL), tried at
\* offset i.  The lazy group 1 ends at the first offset k >= i+2 where the
\* rest of the pattern matches: an optional pair of backslashes (group 2,
\* taken when present) followed by "$$".
DisplayTail(s, k) == StartsAt(s, k, BS \o BS \o "$$") \/ StartsAt(s, k, "$$")

DisplayMatch(s, i) ==
    LET ks == {k \in (i + 2)..Len(s) : DisplayTail(s, k)}
    IN  IF StartsAt(s, i, "$$") /\ Ch(s, i - 1) # BS /\ ks # {}
        THEN LET k  == Min(ks)
                 g2 == IF StartsAt(s, k, BS \o BS \o "$$") THEN BS \o BS ELSE ""
             IN  [ok |-> TRUE, end |-> k + Len(g2) + 2,
                  g1 |-> Slice(s, i + 2, k), g2 |-> g2]
        ELSE [ok |-> FALSE, end |-> -1, g1 |-> "", g2 |-> ""]

\* already_inline_pattern = (?<!\\)\$(?!\$)(.*?)(?<!\\)\$(?!\$)  (DOTALL)
InlineDelim(s, k) == Ch(s, k) = "$" /\ Ch(s, k - 1) # BS /\ Ch(s, k + 1) # "$"

InlineMatch(s, i) ==
    LET ks == {k \in (i + 1)..(Len(s) - 1) : InlineDelim(s, k)}
    IN  IF InlineDelim(s, i) /\ ks # {}
        THEN LET k == Min(ks)
             IN  [ok |-> TRUE, end |-> k + 1, g1 |-> Slice(s, i + 1, k), g2 |-> ""]
        ELSE [ok |-> FALSE, end |-> -1, g1 |-> "", g2 |-> ""]

\* already_display_pattern.sub(protect_display, content), scanning from pos:
\* each match appends f"$${group1}{group2}$$" to the blocks and is replaced
\* by the placeholder of its index.
RECURSIVE ProtectDisplayFrom(_, _, _)
ProtectDisplayFrom(s, pos, blocks) ==
    LET starts == {i \in pos..(Len(s) - 1) : DisplayMatch(s, i).ok}
    IN  IF starts = {} THEN [text |-> SliceFrom(s, pos), blocks |-> blocks]
        ELSE LET i    == Min(starts)
                 m    == DisplayMatch(s, i)
                 blk  == "$$" \o m.g1 \o m.g2 \o "$$"
                 rest == ProtectDisplayFrom(s, m.end, Append(blocks, blk))
             IN  [text   |-> Slice(s, pos, i) \o Placeholder(Len(blocks)) \o rest.text,
                  blocks |-> rest.blocks]

\* already_inline_pattern.sub(protect_inline, content), scanning from pos
RECURSIVE ProtectInlineFrom(_, _, _)
ProtectInlineFrom(s, pos, blocks) ==
    LET starts == {i \in pos..(Len(s) - 1) : InlineMatch(s, i).ok}
    IN  IF starts = {} THEN [text |-> SliceFrom(s, pos), blocks |-> blocks]
        ELSE LET i    == Min(starts)
                 m    == InlineMatch(s, i)
                 blk  == "$" \o m.g1 \o "$"
                 rest == ProtectInlineFrom(s, m.end, Append(blocks, blk))
             IN  [text   |-> Slice(s, pos, i) \o Placeholder(Len(blocks)) \o rest.text,
                  blocks |-> rest.blocks]

\* protect_existing_math with the two passes in the wrong order
protect_inline_first(s) ==
    LET i == ProtectInlineFrom(s, 0, <<>>)
    IN  ProtectDisplayFrom(i.text, 0, i.blocks)

\* MathConverter.protect_existing_math: display first, then inline
protect_existing_math(s) ==
    LET d == ProtectDisplayFrom(s, 0, <<>>)
    IN  ProtectInlineFrom(d.text, 0, d.blocks)

\* one iteration of the loop of restore_protected_math (i is 0-based)
RestoreOne(s, i, blocks) == StrReplace(s, Placeholder(i), blocks[i + 1])

\* MathConverter.restore_protected_math
RECURSIVE RestoreFrom(_, _, _)
RestoreFrom(s, i, blocks) ==
    IF i >= Len(blocks) THEN s
    ELSE RestoreFrom(RestoreOne(s, i, blocks), i + 1, blocks)

restore_protected_math(s, blocks) == RestoreFrom(s, 0, blocks)

(***************************************************************************)
(* BoxConverter.extract_title_with_nested_braces (box_converter.py).       *)
(***************************************************************************)
\* while i < len(content) and depth > 0
TitleScanning(s, i, d) == i < Len(s) /\ d > 0

\* if content[i] == '\\' and i + 1 < len(content)
TitleAtEscape(s, i) == Ch(s, i) = BS /\ i + 1 < Len(s)

\* the loop body with the escape branch left out
TitleStepNoEscape(s, st) ==
    LET c == Ch(s, st.i)
    IN  IF c = "{"
        THEN [i |-> st.i + 1, depth |-> st.depth + 1, chars |-> Append(st.chars, c)]
        ELSE IF c = "}"
        THEN [i |-> st.i + 1, depth |-> st.depth - 1,
              chars |-> IF st.depth - 1 > 0 THEN Append(st.chars, c) ELSE st.chars]
        ELSE [i |-> st.i + 1, depth |-> st.depth, chars |-> Append(st.chars, c)]

\* one iteration of the loop body, on st = [i, depth, chars]
TitleStep(s, st) ==
    LET c == Ch(s, st.i)
    IN  IF TitleAtEscape(s, st.i)
        THEN [i |-> st.i + 2, depth |-> st.depth,
              chars |-> Append(st.chars, Slice(s, st.i, st.i + 2))]
        ELSE IF c = "{"
        THEN [i |-> st.i + 1, depth |-> st.depth + 1, chars |-> Append(st.chars, c)]
        ELSE IF c = "}"
        THEN [i |-> st.i + 1, depth |-> st.depth - 1,
              chars |-> IF st.depth - 1 > 0 THEN Append(st.chars, c) ELSE st.chars]
        ELSE [i |-> st.i + 1, depth |-> st.depth, chars |-> Append(st.chars, c)]

RECURSIVE TitleLoop(_, _)
TitleLoop(s, st) ==
    IF TitleScanning(s, st.i, st.depth) THEN TitleLoop(s, TitleStep(s, st)) ELSE st

\* extract_title_with_nested_braces(content, start_pos) -> (title, end)
extract_title_with_nested_braces(s, start) ==
    LET st == TitleLoop(s, [i |-> start, depth |-> 1, chars |-> <<>>])
    IN  [title |-> Join(st.chars), end |-> st.i]

(***************************************************************************)
(* BoxConverter (box_converter.py).                                        *)
(***************************************************************************)
\* the default of the max_depth parameter of BoxConverter.convert
DefaultMaxDepth == 10

\* \w of the re module, on ASCII text
WordChars ==
    {"a", "b", "c", "d", "e", "f", "g", "h", "i", "j", "k", "l", "m",
     "n", "o", "p", "q", "r", "s", "t", "u", "v", "w", "x", "y", "z",
     "A", "B", "C", "D", "E", "F", "G", "H", "I", "J", "K", "L", "M",
     "N", "O", "P", "Q", "R", "S", "T", "U", "V", "W", "X", "Y", "Z",
     "0", "1", "2", "3", "4", "5", "6", "7", "8", "9", "_"}

\* the characters str.strip() removes
Whitespace == {" ", "\n", "\t", "\r"}

\* s.lstrip(), s.rstrip(), s.strip()
RECURSIVE LStrip(_)
LStrip(s) == IF Ch(s, 0) \in Whitespace THEN LStrip(SliceFrom(s, 1)) ELSE s

RECURSIVE RStrip(_)
RStrip(s) ==
    IF Ch(s, Len(s) - 1) \in Whitespace THEN RStrip(Slice(s, 0, Len(s) - 1)) ELSE s

Strip(s) == RStrip(LStrip(s))

(***************************************************************************)
(* MathConverter: the conversion passes (math_converter.py).               *)
(***************************************************************************)
\* the earlier of two offsets of s.find, -1 standing for no occurrence
FirstOf(a, b) == IF a = -1 THEN b ELSE IF b = -1 THEN a ELSE IF a < b THEN a ELSE b

\* \\begin\{env\*?\}(.*?)\\end\{env\*?\} tried at offset i, for the patterns
\* of align, equation, gather and multline; the replacement keeps the whole
\* match between display delimiters: f"$$\n{match.group(0)}\n$$"
MathEnvMatch(s, i, env) ==
    LET a == i + Len(env) + 7
        body == IF Ch(s, a) = "*" THEN a + 2 ELSE a + 1
        plain == Find(s, BS \o "end{" \o env \o "}", body)
        starred == Find(s, BS \o "end{" \o env \o "*}", body)
        e == FirstOf(plain, starred)
        end == IF e = plain THEN e + Len(env) + 6 ELSE e + Len(env) + 7
    IN  IF /\ StartsAt(s, i, BS \o "begin{" \o env)
           /\ Ch(s, body - 1) = "}"
           /\ e # -1
        THEN [ok |-> TRUE, end |-> end, out |-> "$$\n" \o Slice(s, i, end) \o "\n$$"]
        ELSE [ok |-> FALSE, end |-> -1, out |-> ""]

SubMathEnv(s, env) == [i \in 0..Len(s) |-> MathEnvMatch(s, i, env)]

\* a pattern.sub over the matches m: leftmost first, none overlapping
RECURSIVE MathSubFrom(_, _, _)
MathSubFrom(s, m, pos) ==
    LET hits == {i \in pos..Len(s) : m[i].ok}
    IN  IF hits = {} THEN Slice(s, pos, Len(s))
        ELSE Slice(s, pos, Min(hits)) \o m[Min(hits)].out \o MathSubFrom(s, m, m[Min(hits)].end)

convert_align_environment(s) == MathSubFrom(s, SubMathEnv(s, "align"), 0)
convert_gather_environment(s) == MathSubFrom(s, SubMathEnv(s, "gather"), 0)
convert_multline_environment(s) == MathSubFrom(s, SubMathEnv(s, "multline"), 0)
convert_equation_environment(s) == MathSubFrom(s, SubMathEnv(s, "equation"), 0)

\* opener(.*?)closer tried at offset i, for display_bracket_pattern and
\* inline_paren_pattern; the replacer strips the content and puts it
\* between the delimiters before and after
DelimitedMatch(s, i, opener, closer, before, after) ==
    LET e == Find(s, closer, i + Len(opener))
    IN  IF StartsAt(s, i, opener) /\ e # -1
        THEN [ok |-> TRUE, end |-> e + Len(closer),
              out |-> before \o Strip(Slice(s, i + Len(opener), e)) \o after]
        ELSE [ok |-> FALSE, end |-> -1, out |-> ""]

\* MathConverter.convert_display_math
convert_display_math(s) ==
    MathSubFrom(s, [i \in 0..Len(s) |->
                       DelimitedMatch(s, i, BS \o "[", BS \o "]", "$$\n", "\n$$")], 0)

\* MathConverter.convert_inline_math
convert_inline_math(s) ==
    MathSubFrom(s, [i \in 0..Len(s) |->
                       DelimitedMatch(s, i, BS \o "(", BS \o ")", "$", "$")], 0)

\* MathConverter.clean_math_for_katex: the two replacements of the table,
\* in the order of the dict
clean_math_for_katex(s) ==
    StrReplace(StrReplace(s, BS \o "mbox{", BS \o "text{"), BS \o ";", BS \o ",")

\* MathConverter.handle_nested_brackets
handle_nested_brackets(s) == s

\* self.box_types.get(box_type, 'Box')
BoxTag(box_type) ==
    CASE box_type = "dem_box"  -> "DemBox"
      [] box_type = "ejem_box" -> "EjemBox"
      [] box_type = "ej_box"   -> "EjBox"
      [] OTHER                 -> "Box"

\* box_start_pattern = \\begin\{(\w+_box)\}\{ tried at offset i: the name is
\* the whole run of word characters after "\begin{"; it must end in "_box",
\* have at least one character before that, and be followed by "}{".
RECURSIVE WordRunEnd(_, _)
WordRunEnd(s, k) == IF Ch(s, k) \in WordChars THEN WordRunEnd(s, k + 1) ELSE k

BoxStartMatch(s, i) ==
    LET n0   == i + 7
        stop == WordRunEnd(s, n0)
        name == Slice(s, n0, stop)
    IN  IF /\ StartsAt(s, i, BS \o "begin{")
           /\ Len(name) >= 5
           /\ Slice(name, Len(name) - 4, Len(name)) = "_box"
           /\ StartsAt(s, stop, "}{")
        THEN [ok |-> TRUE, start |-> i, end |-> stop + 2, box_type |-> name]
        ELSE [ok |-> FALSE, start |-> -1, end |-> -1, box_type |-> ""]

NoBoxStart == [ok |-> FALSE, start |-> -1, end |-> -1, box_type |-> ""]

\* self.box_start_pattern.search(content, pos): the leftmost match
RECURSIVE BoxStartSearch(_, _)
BoxStartSearch(s, pos) ==
    LET i == Find(s, BS \o "begin{", pos)
    IN  IF i = -1 THEN NoBoxStart
        ELSE IF BoxStartMatch(s, i).ok THEN BoxStartMatch(s, i)
        ELSE BoxStartSearch(s, i + 1)

\* end_pattern = f'\\end{{{box_type}}}'
EndPattern(box_type) == BS \o "end{" \o box_type \o "}"

\* a search for the closing marker that ignores the type of the box
FindEndAnyType(s, box_type, title_end) == Find(s, EndPattern("dem_box"), title_end)

\* end_pos = content.find(end_pattern, title_end)
FindEnd(s, box_type, title_end) == Find(s, EndPattern(box_type), title_end)

\* what one loop iteration finds at pos: the next opening marker, its title
\* and the offset of its closing marker (-1 when there is none)
BoxAt(s, pos) ==
    LET m == BoxStartSearch(s, pos)
        t == extract_title_with_nested_braces(s, m.end)
    IN  [found     |-> m.ok,
         start     |-> m.start,
         mend      |-> m.end,
         box_type  |-> m.box_type,
         title     |-> t.title,
         title_end |-> t.end,
         end_pos   |-> IF m.ok THEN FindEnd(s, m.box_type, t.end) ELSE -1]

\* box_content = content[title_end:end_pos].strip()
BoxBody(s, b) == Strip(Slice(s, b.title_end, b.end_pos))

\* converted = f"<{tag} title=\"{title_escaped}\">\n\n{body}\n\n</{tag}>"
Converted(box_type, title, body) ==
    "<" \o BoxTag(box_type) \o " title=\"" \o StrReplace(title, "\"", "&quot;")
        \o "\">\n\n" \o body \o "\n\n</" \o BoxTag(box_type) \o ">"

\* the test that guards the re-run of the whole pass
WantsRerun(final_result, has_changes, max_depth) ==
    has_changes /\ max_depth > 0 /\ BoxStartSearch(final_result, 0).ok

\* a re-run that does not count the depth down
RerunSameDepth(max_depth) == max_depth

\* the max_depth argument of the re-run: max_depth - 1
RerunDepth(max_depth) == max_depth - 1

\* resuming after the title instead of after the opening marker
ResumeAfterTitle(b) == b.title_end

\* pos = match.end() of the branch for a box without closing marker
ResumeAfterMarker(b) == b.mend

\* BoxConverter.convert(content, max_depth), and its scanning loop from pos
RECURSIVE BoxConvert(_, _)
RECURSIVE BoxScan(_, _, _, _, _)
BoxScan(s, max_depth, pos, result, has_changes) ==
    LET b == BoxAt(s, pos)
    IN  IF ~b.found
        THEN [result |-> Append(result, SliceFrom(s, pos)), has_changes |-> has_changes]
        ELSE LET before == Append(result, Slice(s, pos, b.start))
             IN  IF b.end_pos = -1
                 THEN BoxScan(s, max_depth, ResumeAfterMarker(b),
                              Append(before, Slice(s, b.start, b.mend)), has_changes)
                 ELSE BoxScan(s, max_depth, b.end_pos + Len(EndPattern(b.box_type)),
                              Append(before,
                                     Converted(b.box_type, b.title,
                                               BoxConvert(BoxBody(s, b), max_depth - 1))),
                              TRUE)

BoxConvert(s, max_depth) ==
    IF max_depth <= 0 THEN s
    ELSE LET r == BoxScan(s, max_depth, 0, <<>>, FALSE)
             final_result == Join(r.result)
         IN  IF WantsRerun(final_result, r.has_changes, max_depth)
             THEN BoxConvert(final_result, RerunDepth(max_depth))
             ELSE final_result

(***************************************************************************)
(* Regular-expression substitution, as StructureConverter uses it          *)
(* (structure_converter.py).  A match at an offset is a record: whether    *)
(* the pattern matches there, where the match ends, and the text that      *)
(* replaces it.                                                            *)
(***************************************************************************)
NoMatch == [ok |-> FALSE, end |-> -1, out |-> ""]

\* the first offset >= pos at which the pattern matches, or -1
RECURSIVE NextMatch(_, _, _)
NextMatch(m, pos, last) ==
    IF pos > last THEN -1
    ELSE IF m[pos].ok THEN pos
    ELSE NextMatch(m, pos + 1, last)

\* pattern.sub(repl, s) from pos on: leftmost matches, none overlapping, the
\* replacement text not scanned again
RECURSIVE SubFrom(_, _, _)
SubFrom(s, m, pos) ==
    LET i == NextMatch(m, pos, Len(s))
    IN  IF i = -1 THEN SliceFrom(s, pos)
        ELSE Slice(s, pos, i) \o m[i].out \o SubFrom(s, m, m[i].end)

\* \s* from offset k: the end of the run of whitespace
RECURSIVE SpaceRunEnd(_, _)
SpaceRunEnd(s, k) == IF Ch(s, k) \in Whitespace THEN SpaceRunEnd(s, k + 1) ELSE k

\* [^}]+\} or [^}]*\} tried at offset k (least is 1 or 0): the offset of the
\* closing brace, or -1
BraceArgEnd(s, k, least) ==
    LET j == Find(s, "}", k)
    IN  IF j # -1 /\ j - k >= least THEN j ELSE -1

\* \\name\*?\{([^}]+)\} (the star only where the pattern has it), replaced
\* by pre \1 post
BracedCommand(s, i, name, star, pre, post) ==
    LET a == i + Len(name)
        b == IF star /\ Ch(s, a) = "*" THEN a + 1 ELSE a
        j == BraceArgEnd(s, b + 1, 1)
    IN  IF StartsAt(s, i, name) /\ Ch(s, b) = "{" /\ j # -1
        THEN [ok |-> TRUE, end |-> j + 1, out |-> pre \o Slice(s, b + 1, j) \o post]
        ELSE NoMatch

\* \\name\s*, replaced by repl
BareCommand(s, i, name, repl) ==
    IF StartsAt(s, i, name)
    THEN [ok |-> TRUE, end |-> SpaceRunEnd(s, i + Len(name)), out |-> repl]
    ELSE NoMatch

\* the match of one pattern at every offset of s
MatchesOfBraced(s, name, star, pre, post) ==
    [i \in 0..Len(s) |-> BracedCommand(s, i, name, star, pre, post)]

MatchesOfBare(s, name, repl) == [i \in 0..Len(s) |-> BareCommand(s, i, name, repl)]

SubBraced(s, name, star, pre, post) ==
    SubFrom(s, MatchesOfBraced(s, name, star, pre, post), 0)

SubBare(s, name, repl) == SubFrom(s, MatchesOfBare(s, name, repl), 0)

\* pattern = \\texorpdfstring\{((?:[^{}]|\{[^}]*\})*)\}\{(?:[^{}]|\{[^}]*\})*\}
\* An argument is a run of units, a unit being a character other than a
\* brace or a group {...} that ends at the first "}": the end of the run.
RECURSIVE UnitsEnd(_, _)
UnitsEnd(s, k) ==
    IF k >= Len(s) \/ Ch(s, k) = "}" THEN k
    ELSE IF Ch(s, k) = "{"
    THEN IF Find(s, "}", k + 1) = -1 THEN k ELSE UnitsEnd(s, Find(s, "}", k + 1) + 1)
    ELSE UnitsEnd(s, k + 1)

TexorpdfstringMatch(s, i) ==
    LET name == BS \o "texorpdfstring{"
        a  == i + Len(name)
        e1 == UnitsEnd(s, a)
        e2 == UnitsEnd(s, e1 + 2)
    IN  IF StartsAt(s, i, name) /\ StartsAt(s, e1, "}{") /\ Ch(s, e2) = "}"
        THEN [ok |-> TRUE, end |-> e2 + 1, out |-> Slice(s, a, e1)]
        ELSE NoMatch

\* StructureConverter.process_texorpdfstring
process_texorpdfstring(s) ==
    SubFrom(s, [i \in 0..Len(s) |-> TexorpdfstringMatch(s, i)], 0)

\* \\begin\{env\}(.*?)\\end\{env\} (DOTALL) tried at offset i: the body is
\* the text up to the first closing tag
EnvBodyEnd(s, i, env) ==
    IF StartsAt(s, i, BS \o "begin{" \o env \o "}")
    THEN Find(s, BS \o "end{" \o env \o "}", i + Len(env) + 8)
    ELSE -1

EnvBody(s, i, env) == Slice(s, i + Len(env) + 8, EnvBodyEnd(s, i, env))

\* center_pattern.sub(unwrap_center, content)
CenterMatch(s, i) ==
    IF EnvBodyEnd(s, i, "center") # -1
    THEN [ok |-> TRUE, end |-> EnvBodyEnd(s, i, "center") + 12,
          out |-> "\n" \o Strip(EnvBody(s, i, "center")) \o "\n"]
    ELSE NoMatch

\* StructureConverter.convert_environments
convert_environments(s) == SubFrom(s, [i \in 0..Len(s) |-> CenterMatch(s, i)], 0)

\* StructureConverter.convert_sections
convert_sections(s) ==
    LET s1 == SubBraced(s, BS \o "section", TRUE, "## ", "")
        s2 == SubBraced(s1, BS \o "subsection", TRUE, "### ", "")
    IN  SubBraced(s2, BS \o "subsubsection", TRUE, "#### ", "")

\* StructureConverter.convert_text_formatting
convert_text_formatting(s) ==
    LET s1 == SubBraced(s, BS \o "textbf", FALSE, "**", "**")
        s2 == SubBraced(s1, BS \o "textit", FALSE, "*", "*")
        s3 == SubBraced(s2, BS \o "emph", FALSE, "*", "*")
    IN  SubBraced(s3, BS \o "underline", FALSE, "<u>", "</u>")

\* item_pattern = \\item(?:\[([^\]]*)\])?\s*(.+?)(?=\\item(?:\[[^\]]*\])?|$)
\* (DOTALL).  The look-ahead holds before "\item", at the end of the text
\* and before a newline that ends the text.
ItemAhead(t, e) ==
    \/ StartsAt(t, e, BS \o "item")
    \/ e = Len(t)
    \/ e = Len(t) - 1 /\ Ch(t, e) = "\n"

\* (.+?) from offset e - 1: the first offset from e on where the look-ahead holds
ItemTextEnd(t, e) == Min({k \in e..Len(t) : ItemAhead(t, k)})

\* \s*(.+?)(?=...) tried at offset b: the whitespace run is taken whole
\* unless it reaches the end of the text, where it gives its last character
\* back to the item text
ItemRest(t, b) ==
    IF b >= Len(t) THEN [ok |-> FALSE, text |-> "", end |-> -1]
    ELSE LET w == SpaceRunEnd(t, b)
             k == IF w < Len(t) THEN w ELSE w - 1
             e == ItemTextEnd(t, k + 1)
         IN  [ok |-> TRUE, text |-> Slice(t, k, e), end |-> e]

\* the pattern tried at offset i: first with the label group, then without
ItemMatch(t, i) ==
    LET a == i + 5
        j == Find(t, "]", a + 1)
        labelled == Ch(t, a) = "[" /\ j # -1 /\ ItemRest(t, j + 1).ok
    IN  IF ~StartsAt(t, i, BS \o "item")
        THEN [ok |-> FALSE, label |-> "", text |-> "", end |-> -1]
        ELSE IF labelled
        THEN [ok |-> TRUE, label |-> Slice(t, a + 1, j),
              text |-> ItemRest(t, j + 1).text, end |-> ItemRest(t, j + 1).end]
        ELSE [ok |-> ItemRest(t, a).ok, label |-> "",
              text |-> ItemRest(t, a).text, end |-> ItemRest(t, a).end]

\* re.findall(item_pattern, items_text, re.DOTALL): the (label, text) pairs
RECURSIVE FindItems(_, _)
FindItems(t, pos) ==
    LET hits == {k \in pos..Len(t) : ItemMatch(t, k).ok}
        i == IF hits = {} THEN -1 ELSE Min(hits)
        m == ItemMatch(t, i)
    IN  IF i = -1 THEN <<>>
        ELSE <<[label |-> m.label, text |-> m.text]>> \o FindItems(t, m.end)

\* the loop over the items with a counter that advances on every item
RECURSIVE ItemLinesCountAll(_, _, _)
ItemLinesCountAll(items, numbered, counter) ==
    IF items = <<>> THEN <<>>
    ELSE LET text == Strip(Head(items).text)
             label == Head(items).label
         IN  IF text = "" THEN ItemLinesCountAll(Tail(items), numbered, counter)
             ELSE IF label # ""
             THEN <<"- **" \o label \o "** " \o text>>
                  \o ItemLinesCountAll(Tail(items), numbered, counter + 1)
             ELSE IF numbered
             THEN <<ToString(counter) \o ". " \o text>>
                  \o ItemLinesCountAll(Tail(items), numbered, counter + 1)
             ELSE <<"- " \o text>> \o ItemLinesCountAll(Tail(items), numbered, counter)

\* the loop of convert_itemize / convert_enumerate over the items: the
\* lines of the list (numbered is FALSE for itemize), counter being the
\* ordinal of the next unlabelled item
RECURSIVE ItemLines(_, _, _)
ItemLines(items, numbered, counter) ==
    IF items = <<>> THEN <<>>
    ELSE LET text == Strip(Head(items).text)
             label == Head(items).label
         IN  IF text = "" THEN ItemLines(Tail(items), numbered, counter)
             ELSE IF label # ""
             THEN <<"- **" \o label \o "** " \o text>>
                  \o ItemLines(Tail(items), numbered, counter)
             ELSE IF numbered
             THEN <<ToString(counter) \o ". " \o text>>
                  \o ItemLines(Tail(items), numbered, counter + 1)
             ELSE <<"- " \o text>> \o ItemLines(Tail(items), numbered, counter)

\* '\n'.join(result)
RECURSIVE JoinLines(_)
JoinLines(lines) ==
    IF Len(lines) = 1 THEN lines[1] ELSE lines[1] \o "\n" \o JoinLines(Tail(lines))

\* convert_itemize(match) and convert_enumerate(match), on the list body
ConvertList(body, numbered) ==
    LET lines == ItemLines(FindItems(body, 0), numbered, 1)
    IN  IF lines = <<>> THEN "" ELSE "\n" \o JoinLines(lines) \o "\n"

ListMatch(s, i, env, numbered) ==
    IF EnvBodyEnd(s, i, env) # -1
    THEN [ok |-> TRUE, end |-> EnvBodyEnd(s, i, env) + Len(env) + 6,
          out |-> ConvertList(EnvBody(s, i, env), numbered)]
    ELSE NoMatch

\* self.itemize_pattern.sub(convert_itemize, content)
SubItemize(s) ==
    MathSubFrom(s, [i \in 0..Len(s) |-> ListMatch(s, i, "itemize", FALSE)], 0)

\* self.enumerate_pattern.sub(convert_enumerate, content)
SubEnumerate(s) ==
    MathSubFrom(s, [i \in 0..Len(s) |-> ListMatch(s, i, "enumerate", TRUE)], 0)

\* max_iterations = 10
MaxListIterations == 10

\* the while loop of convert_lists, from its iteration counter on
RECURSIVE ListLoop(_, _)
ListLoop(s, iterations) ==
    IF iterations >= MaxListIterations THEN s
    ELSE LET new == SubEnumerate(SubItemize(s))
         IN  IF new = s THEN new ELSE ListLoop(new, iterations + 1)

\* the four re.sub calls that remove the tags left over
RemoveListTags(s) ==
    LET s1 == StrReplace(s, BS \o "end{itemize}", "")
        s2 == StrReplace(s1, BS \o "end{enumerate}", "")
        s3 == StrReplace(s2, BS \o "begin{itemize}", "")
    IN  StrReplace(s3, BS \o "begin{enumerate}", "")

\* StructureConverter.convert_lists
convert_lists(s) == RemoveListTags(ListLoop(s, 0))

\* (?:\[.*?\])? of includegraphics_pattern, the "[" being at offset j - 1:
\* the first "]" on the line that the braced argument follows, or -1
RECURSIVE OptionEnd(_, _)
OptionEnd(s, j) ==
    IF j >= Len(s) \/ Ch(s, j) = "\n" THEN -1
    ELSE IF Ch(s, j) = "]" /\ Ch(s, j + 1) = "{" /\ BraceArgEnd(s, j + 2, 1) # -1 THEN j
    ELSE OptionEnd(s, j + 1)

\* includegraphics_pattern = \\includegraphics(?:\[.*?\])?\{([^}]+)\}
IncludegraphicsMatch(s, i) ==
    LET name == BS \o "includegraphics"
        a == i + Len(name)
        o == IF Ch(s, a) = "[" THEN OptionEnd(s, a + 1) ELSE -1
        b == IF o # -1 THEN o + 1 ELSE a
        j == BraceArgEnd(s, b + 1, 1)
    IN  IF StartsAt(s, i, name) /\ Ch(s, b) = "{" /\ j # -1
        THEN [ok |-> TRUE, end |-> j + 1, out |-> "![](" \o Slice(s, b + 1, j) \o ")"]
        ELSE NoMatch

\* url_pattern = \\url\{([^}]+)\}, replaced by [\1](\1)
UrlMatch(s, i) ==
    LET m == BracedCommand(s, i, BS \o "url", FALSE, "", "")
    IN  IF m.ok THEN [m EXCEPT !.out = "[" \o m.out \o "](" \o m.out \o ")"] ELSE NoMatch

\* href_pattern = \\href\{([^}]+)\}\{([^}]+)\}, replaced by [\2](\1)
HrefMatch(s, i) ==
    LET a  == i + 6
        j1 == BraceArgEnd(s, a, 1)
        j2 == BraceArgEnd(s, j1 + 2, 1)
    IN  IF StartsAt(s, i, BS \o "href{") /\ j1 # -1 /\ Ch(s, j1 + 1) = "{" /\ j2 # -1
        THEN [ok |-> TRUE, end |-> j2 + 1,
              out |-> "[" \o Slice(s, j1 + 2, j2) \o "](" \o Slice(s, a, j1) \o ")"]
        ELSE NoMatch

\* StructureConverter.convert_images_and_urls
convert_images_and_urls(s) ==
    LET s1 == SubFrom(s, [i \in 0..Len(s) |-> IncludegraphicsMatch(s, i)], 0)
        s2 == SubFrom(s1, [i \in 0..Len(s1) |-> UrlMatch(s1, i)], 0)
    IN  SubFrom(s2, [i \in 0..Len(s2) |-> HrefMatch(s2, i)], 0)

\* hypersetup_pattern = \\hypersetup\{[^}]*\}\s*
HypersetupMatch(s, i) ==
    LET j == BraceArgEnd(s, i + 12, 0)
    IN  IF StartsAt(s, i, BS \o "hypersetup{") /\ j # -1
        THEN [ok |-> TRUE, end |-> SpaceRunEnd(s, j + 1), out |-> ""]
        ELSE NoMatch

\* str.lower() on ASCII letters, for re.IGNORECASE
UpperCase == "ABCDEFGHIJKLMNOPQRSTUVWXYZ"
LowerCase == "abcdefghijklmnopqrstuvwxyz"

LowerChar(c) ==
    IF c # "" /\ Find(UpperCase, c, 0) # -1 THEN Ch(LowerCase, Find(UpperCase, c, 0)) ELSE c

RECURSIVE ToLower(_)
ToLower(s) == IF s = "" THEN "" ELSE LowerChar(Ch(s, 0)) \o ToLower(SliceFrom(s, 1))

\* nobgthispage_pattern = \\NoBgThispage\s* (IGNORECASE)
SubNoBgThispage(s) ==
    LET low == ToLower(s)
    IN  SubFrom(s, [i \in 0..Len(s) |->
                       IF StartsAt(low, i, BS \o "nobgthispage")
                       THEN [ok |-> TRUE, end |-> SpaceRunEnd(s, i + 13), out |-> ""]
                       ELSE NoMatch], 0)

\* StructureConverter.remove_latex_commands
remove_latex_commands(s) ==
    LET s1 == SubBare(s, BS \o "noindent", "")
        s2 == SubBare(s1, BS \o "newpage", "\n\n")
        s3 == SubBare(s2, BS \o "maketitle", "")
        s4 == SubBare(s3, BS \o "tableofcontents", "")
        s5 == SubFrom(s4, [i \in 0..Len(s4) |-> HypersetupMatch(s4, i)], 0)
        s6 == SubNoBgThispage(s5)
        s7 == StrReplace(s6, BS \o "begin{center}", "")
    IN  StrReplace(s7, BS \o "end{center}", "")

(***************************************************************************)
(* TexToMdxParser (parser.py): the passes of parse.                        *)
(***************************************************************************)
\* re.search(pattern, s): the first offset at which the pattern matches
SearchMatch(s, m) == NextMatch(m, 0, Len(s))

\* \\name\*?\{[^}]+\} or \\name\*?\{[^}]*\} (least is 1 or 0; the star only
\* where the pattern has it), replaced by the empty string
BracedDelete(s, i, name, star, least) ==
    LET a == i + Len(name)
        b == IF star /\ Ch(s, a) = "*" THEN a + 1 ELSE a
        j == BraceArgEnd(s, b + 1, least)
    IN  IF StartsAt(s, i, name) /\ Ch(s, b) = "{" /\ j # -1
        THEN [ok |-> TRUE, end |-> j + 1, out |-> ""]
        ELSE NoMatch

SubBracedDelete(s, name, star, least) ==
    SubFrom(s, [i \in 0..Len(s) |-> BracedDelete(s, i, name, star, least)], 0)

\* \{[^}]+\} tried at offset k: the offset after the closing brace, or -1
BraceGroupEnd(s, k) ==
    IF Ch(s, k) = "{" /\ BraceArgEnd(s, k + 1, 1) # -1
    THEN BraceArgEnd(s, k + 1, 1) + 1
    ELSE -1

\* \\addcontentsline\{[^}]+\}\{[^}]+\}\{[^}]+\}
AddcontentslineMatch(s, i) ==
    LET e1 == BraceGroupEnd(s, i + 16)
        e2 == IF e1 = -1 THEN -1 ELSE BraceGroupEnd(s, e1)
        e3 == IF e2 = -1 THEN -1 ELSE BraceGroupEnd(s, e2)
    IN  IF StartsAt(s, i, BS \o "addcontentsline") /\ e3 # -1
        THEN [ok |-> TRUE, end |-> e3, out |-> ""]
        ELSE NoMatch

AsciiDigits == {"0", "1", "2", "3", "4", "5", "6", "7", "8", "9"}

\* \d+ from offset k: the end of the run of digits
RECURSIVE DigitRunEnd(_, _)
DigitRunEnd(s, k) == IF Ch(s, k) \in AsciiDigits THEN DigitRunEnd(s, k + 1) ELSE k

\* \\leftskip\s+[+-]?\d+pt
LeftskipMatch(s, i) ==
    LET a == i + 9
        b == SpaceRunEnd(s, a)
        c == IF Ch(s, b) \in {"+", "-"} THEN b + 1 ELSE b
        d == DigitRunEnd(s, c)
    IN  IF StartsAt(s, i, BS \o "leftskip") /\ b > a /\ d > c /\ StartsAt(s, d, "pt")
        THEN [ok |-> TRUE, end |-> d + 2, out |-> ""]
        ELSE NoMatch

\* \\setlength\{?\\itemsep\}?\{[^}]+\}
SetlengthMatch(s, i) ==
    LET a == i + 10
        b == IF Ch(s, a) = "{" THEN a + 1 ELSE a
        c == b + 8
        d == IF Ch(s, c) = "}" THEN c + 1 ELSE c
        e == BraceGroupEnd(s, d)
    IN  IF StartsAt(s, i, BS \o "setlength") /\ StartsAt(s, b, BS \o "itemsep") /\ e # -1
        THEN [ok |-> TRUE, end |-> e, out |-> ""]
        ELSE NoMatch

\* TexToMdxParser.remove_vspace_commands
remove_vspace_commands(s) ==
    LET s1 == SubBracedDelete(s, BS \o "vspace", TRUE, 1)
        s2 == SubBracedDelete(s1, BS \o "hspace", TRUE, 1)
        s3 == SubBracedDelete(s2, BS \o "footnote", FALSE, 1)
        s4 == SubFrom(s3, [i \in 0..Len(s3) |-> AddcontentslineMatch(s3, i)], 0)
        s5 == StrReplace(s4, BS \o "newpage", "")
        s6 == SubFrom(s5, [i \in 0..Len(s5) |-> LeftskipMatch(s5, i)], 0)
    IN  SubFrom(s6, [i \in 0..Len(s6) |-> SetlengthMatch(s6, i)], 0)

\* TexToMdxParser.remove_minipage_environments
remove_minipage_environments(s) ==
    StrReplace(SubBracedDelete(s, BS \o "begin{minipage}", FALSE, 1),
               BS \o "end{minipage}", "")

\* the code fence of three grave accents; a TLA+ string cannot hold that
\* character, and the tilde, which no pattern of the program mentions,
\* stands for it
CodeFence == "~~~"

\* \\begin\{lstlisting\}(?:\[[^\]]*\])?, replaced by a code fence
LstlistingMatch(s, i) ==
    LET a == i + 18
        j == Find(s, "]", a + 1)
    IN  IF ~StartsAt(s, i, BS \o "begin{lstlisting}") THEN NoMatch
        ELSE IF Ch(s, a) = "[" /\ j # -1
        THEN [ok |-> TRUE, end |-> j + 1, out |-> CodeFence]
        ELSE [ok |-> TRUE, end |-> a, out |-> CodeFence]

\* TexToMdxParser.convert_lstlisting_to_code_blocks
convert_lstlisting_to_code_blocks(s) ==
    StrReplace(SubFrom(s, [i \in 0..Len(s) |-> LstlistingMatch(s, i)], 0),
               BS \o "end{lstlisting}", CodeFence)

\* remove_preamble returning a text without both markers as it is, not stripped
remove_preamble_as_is(s) ==
    LET document_start == Find(s, BS \o "begin{document}", 0)
        document_end == Find(s, BS \o "end{document}", 0)
    IN  IF document_start # -1 /\ document_end # -1
        THEN Strip(Slice(s, document_start + 16, document_end))
        ELSE s

\* TexToMdxParser.remove_preamble
remove_preamble(s) ==
    LET document_start == Find(s, BS \o "begin{document}", 0)
        document_end == Find(s, BS \o "end{document}", 0)
    IN  IF document_start # -1 /\ document_end # -1
        THEN Strip(Slice(s, document_start + 16, document_end))
        ELSE Strip(s)

\* \\hyperref\[[^\]]*\]\{([^}]*)\}, replaced by \1
HyperrefMatch(s, i) ==
    LET j == Find(s, "]", i + 10)
        e == Find(s, "}", j + 2)
    IN  IF StartsAt(s, i, BS \o "hyperref[") /\ j # -1 /\ Ch(s, j + 1) = "{" /\ e # -1
        THEN [ok |-> TRUE, end |-> e + 1, out |-> Slice(s, j + 2, e)]
        ELSE NoMatch

\* the while loop of replace_substack: the parts of inner that "\\" outside
\* braces separates
RECURSIVE SubstackParts(_, _, _, _, _)
SubstackParts(inner, i, d, result, current) ==
    IF i >= Len(inner)
    THEN IF current # "" THEN Append(result, current) ELSE result
    ELSE IF Ch(inner, i) = "{"
    THEN SubstackParts(inner, i + 1, d + 1, result, current \o "{")
    ELSE IF Ch(inner, i) = "}"
    THEN SubstackParts(inner, i + 1, d - 1, result, current \o "}")
    ELSE IF d = 0 /\ i < Len(inner) - 1 /\ Slice(inner, i, i + 2) = BS \o BS
    THEN SubstackParts(inner, i + 2, d, Append(result, current), "")
    ELSE SubstackParts(inner, i + 1, d, result, current \o Ch(inner, i))

\* ', '.join(part.strip() for part in result if part.strip())
RECURSIVE CommaJoin(_)
CommaJoin(parts) ==
    IF parts = <<>> THEN ""
    ELSE IF Strip(Head(parts)) = "" THEN CommaJoin(Tail(parts))
    ELSE IF CommaJoin(Tail(parts)) = "" THEN Strip(Head(parts))
    ELSE Strip(Head(parts)) \o ", " \o CommaJoin(Tail(parts))

\* replace_substack(match), inner being match.group(1)
replace_substack(inner) == CommaJoin(SubstackParts(inner, 0, 0, <<>>, ""))

\* the inner while loop of remove_equation_commands: the scan for the brace
\* that closes the one before offset i
RECURSIVE CloseScan(_, _, _)
CloseScan(s, i, d) ==
    IF i < Len(s) /\ d > 0
    THEN CloseScan(s, i + 1, IF Ch(s, i) = "{" THEN d + 1
                             ELSE IF Ch(s, i) = "}" THEN d - 1 ELSE d)
    ELSE [i |-> i, depth |-> d]

\* the while True loop of remove_equation_commands, from pos on
RECURSIVE SubstackLoop(_, _)
SubstackLoop(s, pos) ==
    LET start == Find(s, BS \o "substack{", pos)
        brace_start == start + 9
        scan == CloseScan(s, brace_start + 1, 1)
        replacement == replace_substack(Slice(s, brace_start + 1, scan.i - 1))
    IN  IF start = -1 THEN s
        ELSE IF scan.depth = 0
        THEN SubstackLoop(Slice(s, 0, start) \o replacement \o SliceFrom(s, scan.i),
                          start + Len(replacement))
        ELSE SubstackLoop(s, scan.i)

\* TexToMdxParser.remove_equation_commands
remove_equation_commands(s) ==
    LET s1 == SubBracedDelete(s, BS \o "tag", FALSE, 0)
        s2 == SubBracedDelete(s1, BS \o "label", FALSE, 0)
        s3 == SubBracedDelete(s2, BS \o "eqref", FALSE, 0)
        s4 == SubFrom(s3, [i \in 0..Len(s3) |-> HyperrefMatch(s3, i)], 0)
        s5 == StrReplace(s4, BS \o "underbracket", BS \o "underbrace")
        s6 == StrReplace(s5, BS \o "overbracket", BS \o "overbrace")
        s7 == StrReplace(s6, BS \o "Lint", BS \o "int")
    IN  SubstackLoop(s7, 0)

\* re.sub(r'\\[\(\)]', '', table_content)
ParenDelimMatch(s, i) ==
    IF StartsAt(s, i, BS \o "(") \/ StartsAt(s, i, BS \o ")")
    THEN [ok |-> TRUE, end |-> i + 2, out |-> ""]
    ELSE NoMatch

\* handle_tabular(match): column_spec is match.group(1), table_content
\* match.group(2)
handle_tabular(column_spec, table_content) ==
    LET t1 == StrReplace(table_content, "$", "")
        t2 == SubFrom(t1, [i \in 0..Len(t1) |-> ParenDelimMatch(t1, i)], 0)
    IN  "\n$$\n" \o BS \o "begin{array}" \o column_spec \o t2
            \o BS \o "end{array}\n$$\n"

\* the first \end{tabular} from offset k on that \s*\\end\{center\} follows
RECURSIVE EndTabularInCenter(_, _)
EndTabularInCenter(s, k) ==
    LET e == Find(s, BS \o "end{tabular}", k)
    IN  IF e = -1 THEN -1
        ELSE IF StartsAt(s, SpaceRunEnd(s, e + 13), BS \o "end{center}") THEN e
        ELSE EndTabularInCenter(s, e + 1)

\* \\begin\{tabular\}(\{[^}]*\})(.*?)\\end\{tabular\} tried at offset b; inside
\* center_tabular_pattern the closing tag is one that \s*\\end\{center\}
\* follows, and the match runs to the end of that
TabularAt(s, b, inCenter) ==
    LET j == Find(s, "}", b + 16)
        e == IF j = -1 THEN -1
             ELSE IF inCenter THEN EndTabularInCenter(s, j + 1)
             ELSE Find(s, BS \o "end{tabular}", j + 1)
    IN  IF StartsAt(s, b, BS \o "begin{tabular}{") /\ e # -1
        THEN [ok |-> TRUE,
              end |-> IF inCenter THEN SpaceRunEnd(s, e + 13) + 12 ELSE e + 13,
              out |-> handle_tabular(Slice(s, b + 15, j + 1), Slice(s, j + 1, e))]
        ELSE NoMatch

\* center_tabular_pattern tried at offset i
CenterTabularMatch(s, i) ==
    IF StartsAt(s, i, BS \o "begin{center}")
    THEN TabularAt(s, SpaceRunEnd(s, i + 14), TRUE)
    ELSE NoMatch

\* StructureConverter.convert_tabular_to_array
convert_tabular_to_array(s) ==
    LET s1 == SubFrom(s, [i \in 0..Len(s) |-> CenterTabularMatch(s, i)], 0)
    IN  SubFrom(s1, [i \in 0..Len(s1) |-> TabularAt(s1, i, FALSE)], 0)

\* \\title\{((?:[^{}]|\{[^}]*\})*)\} tried at offset i; out is group 1
TitleMatch(s, i) ==
    LET e == UnitsEnd(s, i + 7)
    IN  IF StartsAt(s, i, BS \o "title{") /\ Ch(s, e) = "}"
        THEN [ok |-> TRUE, end |-> e + 1, out |-> Slice(s, i + 7, e)]
        ELSE NoMatch

\* re.search of one of the three patterns of extract_metadata: the match,
\* or NoMatch
MetadataSearch(s, key) ==
    LET m == [i \in 0..Len(s) |->
                 IF key = "title" THEN TitleMatch(s, i)
                 ELSE BracedCommand(s, i, BS \o key, FALSE, "", "")]
        at == SearchMatch(s, m)
    IN  IF at = -1 THEN NoMatch ELSE m[at]

MetadataKeys == {"title", "author", "date"}

\* TexToMdxParser.extract_metadata: the dict, as a function on its keys
extract_metadata(s) ==
    [key \in {q \in MetadataKeys : MetadataSearch(s, q).ok} |->
        IF key = "title"
        THEN Strip(SubBraced(MetadataSearch(s, key).out, BS \o "textbf", FALSE, "", ""))
        ELSE Strip(MetadataSearch(s, key).out)]

\* metadata.get(key, default)
DictGet(d, key, default) == IF key \in DOMAIN d THEN d[key] ELSE default

SlugChars ==
    {"a", "b", "c", "d", "e", "f", "g", "h", "i", "j", "k", "l", "m",
     "n", "o", "p", "q", "r", "s", "t", "u", "v", "w", "x", "y", "z"}
        \cup AsciiDigits

\* re.sub(r'[^a-z0-9]+', '-', text)
RECURSIVE Hyphenate(_, _)
Hyphenate(t, inRun) ==
    IF t = "" THEN ""
    ELSE IF Ch(t, 0) \in SlugChars THEN Ch(t, 0) \o Hyphenate(SliceFrom(t, 1), FALSE)
    ELSE IF inRun THEN Hyphenate(SliceFrom(t, 1), TRUE)
    ELSE "-" \o Hyphenate(SliceFrom(t, 1), TRUE)

\* text.strip('-')
RECURSIVE StripHyphens(_)
StripHyphens(t) ==
    IF Ch(t, 0) = "-" THEN StripHyphens(SliceFrom(t, 1))
    ELSE IF Ch(t, Len(t) - 1) = "-" THEN StripHyphens(Slice(t, 0, Len(t) - 1))
    ELSE t

\* t.rfind('-'), or -1
RECURSIVE LastHyphen(_, _)
LastHyphen(t, i) ==
    IF i < 0 THEN -1 ELSE IF Ch(t, i) = "-" THEN i ELSE LastHyphen(t, i - 1)

\* the cut at 50 characters without the cut at the last hyphen
CutAtFifty(t) == Slice(t, 0, 50)

\* text[:50].rsplit('-', 1)[0]
CutAtHyphen(t) ==
    LET head == Slice(t, 0, 50)
        h == LastHyphen(head, Len(head) - 1)
    IN  IF h = -1 THEN head ELSE Slice(head, 0, h)

\* unicodedata.normalize('NFKD', c).encode('ascii', 'ignore').decode('ascii')
\* of one character: an accented letter keeps its base letter, a
\* superscript digit becomes the digit, a letter without decomposition is
\* dropped, an ASCII character stays
AsciiFoldChar(c) ==
    IF c = "é" THEN "e"
    ELSE IF c = "É" THEN "E"
    ELSE IF c = "ñ" THEN "n"
    ELSE IF c = "²" THEN "2"
    ELSE IF c = "ß" THEN ""
    ELSE c

\* text = unicodedata.normalize('NFKD', text); text = text.encode('ascii',
\* 'ignore').decode('ascii')
RECURSIVE AsciiFold(_)
AsciiFold(s) == IF s = "" THEN "" ELSE AsciiFoldChar(Ch(s, 0)) \o AsciiFold(SliceFrom(s, 1))

\* TexToMdxParser._create_slug
create_slug(text) ==
    LET t == StripHyphens(Hyphenate(ToLower(AsciiFold(text)), FALSE))
    IN  IF Len(t) > 50 THEN CutAtHyphen(t) ELSE t

(***************************************************************************)
(* TikzConverter (tikz_converter.py).                                      *)
(***************************************************************************)
\* converters = ['dvisvgm', 'pdf2svg', 'inkscape']
Converters == {"dvisvgm", "pdf2svg", "inkscape"}

\* self.tikz_pattern.findall(content), from offset pos on
RECURSIVE TikzBlocksFrom(_, _)
TikzBlocksFrom(s, pos) ==
    LET b == Find(s, BS \o "begin{tikzpicture}", pos)
        e == Find(s, BS \o "end{tikzpicture}", b + 19)
    IN  IF b = -1 \/ e = -1 THEN <<>>
        ELSE <<Slice(s, b + 19, e)>> \o TikzBlocksFrom(s, e + 17)

\* TikzConverter.extract_tikz_blocks
extract_tikz_blocks(s) == TikzBlocksFrom(s, 0)

\* svg_filename of convert_tikz_to_svg
SvgFilename(prefix, counter) ==
    IF prefix # "" THEN prefix \o "_tikz_" \o ToString(counter) \o ".svg"
    ELSE "tikz_" \o ToString(counter) \o ".svg"

\* tikz_block and image_markdown of convert_content
TikzBlock(tikz_code) ==
    BS \o "begin{tikzpicture}" \o tikz_code \o BS \o "end{tikzpicture}"

ImageMarkdown(svg_filename) == "\n![TikZ Graph](/blogs/images/" \o svg_filename \o ")\n"

(***************************************************************************)
(* Input documents: concatenations of a few pieces.                        *)
(***************************************************************************)
RECURSIVE DocsOver(_, _)
DocsOver(pieces, n) ==
    IF n = 0 THEN {""}
    ELSE LET shorter == DocsOver(pieces, n - 1)
         IN  shorter \cup {d \o p : d \in shorter, p \in pieces}

MathPieces == {"$", "$$", "a", " ", BS, Placeholder(0)}
MathDocs == DocsOver(MathPieces, MaxMathPieces)

\* documents made of complete math spans and plain text only
SpanPieces == {"$a$", "$$a$$", "a", " "}
SpanDocs == DocsOver(SpanPieces, MaxSpanPieces)

\* the variables of the title scanner while no scan is running
TitleIdle ==
    /\ start_pos = 0
    /\ title_i = 0
    /\ depth = 0
    /\ title_chars = <<>>

\* the variables of the box converter while no call is running
BoxIdle ==
    /\ depth_arg = 0
    /\ stack = <<>>
    /\ retval = ""

\* the variables of convert_lists and of the parallel runs while unused
ExtIdle ==
    /\ iteration = 0
    /\ old_content = ""
    /\ runs = <<>>
    /\ files = <<>>
    /\ call = 0
    /\ first_result = ""

\* the variables of the parser while no call of parse is running
ParseIdle ==
    /\ converter = "none"
    /\ raised = "none"
    /\ metadata = <<>>
    /\ title_slug = ""
    /\ tikz_blocks = <<>>
    /\ tikz_i = 0
    /\ image_counter = 0
    /\ svg_filenames = <<>>

(***************************************************************************)
(* The protect / restore cycle of MathConverter.                           *)
(***************************************************************************)
InitMath ==
    /\ input \in MathDocs
    /\ content = input
    /\ protected_blocks = <<>>
    /\ restore_i = 0
    /\ pc = "start"
    /\ TitleIdle
    /\ BoxIdle
    /\ ParseIdle
    /\ ExtIdle

InitSpans ==
    /\ input \in SpanDocs
    /\ content = input
    /\ protected_blocks = <<>>
    /\ restore_i = 0
    /\ pc = "start"
    /\ TitleIdle
    /\ BoxIdle
    /\ ParseIdle
    /\ ExtIdle

\* content, protected_blocks = self.protect_existing_math(content)
ProtectExistingMath ==
    /\ pc = "start"
    /\ LET r == protect_existing_math(content)
       IN  /\ content' = r.text
           /\ protected_blocks' = r.blocks
    /\ pc' = "restoring"
    /\ UNCHANGED <<extVars, input, restore_i, titleVars, boxVars, parseVars>>

\* for i, block in enumerate(protected_blocks): content = content.replace(...)
RestoreStep ==
    /\ pc = "restoring"
    /\ restore_i < Len(protected_blocks)
    /\ content' = RestoreOne(content, restore_i, protected_blocks)
    /\ restore_i' = restore_i + 1
    /\ UNCHANGED <<extVars, pc, input, protected_blocks, titleVars, boxVars, parseVars>>

\* return content
RestoreReturn ==
    /\ pc = "restoring"
    /\ restore_i >= Len(protected_blocks)
    /\ pc' = "restored"
    /\ UNCHANGED <<extVars, input, mathVars, titleVars, boxVars, parseVars>>

NextMath == ProtectExistingMath \/ RestoreStep \/ RestoreReturn

SpecMath == InitMath /\ [][NextMath]_vars

\* the same cycle on documents made of complete math spans
SpecSpans == InitSpans /\ [][NextMath]_vars

(***************************************************************************)
(* A call of extract_title_with_nested_braces, one loop iteration a step.  *)
(***************************************************************************)
TitlePieces == {"{", "}", BS, "a"}
TitleDocs == DocsOver(TitlePieces, MaxTitlePieces)

\* the offsets just past an opening brace
AfterOpenBrace(s) == {p \in 1..Len(s) : Ch(s, p - 1) = "{"}

MathIdle ==
    /\ content = ""
    /\ protected_blocks = <<>>
    /\ restore_i = 0

\* depth = 1; i = start_pos; title_chars = []
InitTitle ==
    /\ input \in TitleDocs
    /\ start_pos \in AfterOpenBrace(input)
    /\ title_i = start_pos
    /\ depth = 1
    /\ title_chars = <<>>
    /\ pc = "title_scan"
    /\ MathIdle
    /\ BoxIdle
    /\ ParseIdle
    /\ ExtIdle

TitleState == [i |-> title_i, depth |-> depth, chars |-> title_chars]

TitleAdvance ==
    LET st == TitleStep(input, TitleState)
    IN  /\ title_i' = st.i
        /\ depth' = st.depth
        /\ title_chars' = st.chars
        /\ UNCHANGED <<extVars, pc, input, start_pos, mathVars, boxVars, parseVars>>

\* if content[i] == '\\' and i + 1 < len(content): copy both characters
TitleEscape ==
    /\ pc = "title_scan"
    /\ TitleScanning(input, title_i, depth)
    /\ TitleAtEscape(input, title_i)
    /\ TitleAdvance

\* elif content[i] == '{'
TitleOpen ==
    /\ pc = "title_scan"
    /\ TitleScanning(input, title_i, depth)
    /\ ~TitleAtEscape(input, title_i)
    /\ Ch(input, title_i) = "{"
    /\ TitleAdvance

\* elif content[i] == '}'
TitleClose ==
    /\ pc = "title_scan"
    /\ TitleScanning(input, title_i, depth)
    /\ ~TitleAtEscape(input, title_i)
    /\ Ch(input, title_i) = "}"
    /\ TitleAdvance

\* else
TitleOther ==
    /\ pc = "title_scan"
    /\ TitleScanning(input, title_i, depth)
    /\ ~TitleAtEscape(input, title_i)
    /\ Ch(input, title_i) \notin {"{", "}"}
    /\ TitleAdvance

\* return ''.join(title_chars), i
TitleReturn ==
    /\ pc = "title_scan"
    /\ ~TitleScanning(input, title_i, depth)
    /\ pc' = "title_done"
    /\ UNCHANGED <<extVars, input, titleVars, mathVars, boxVars, parseVars>>

NextTitle == TitleEscape \/ TitleOpen \/ TitleClose \/ TitleOther \/ TitleReturn

SpecTitle == InitTitle /\ [][NextTitle]_vars

\* the pair returned by the call
ReturnedTitle == Join(title_chars)
ReturnedEnd == title_i

(***************************************************************************)
(* A call of BoxConverter.convert, with its recursive calls on a stack.    *)
(* A frame holds the locals of one call; "waiting" says what the call does *)
(* with the value its callee returns: substitute it as a box body, or      *)
(* return it (the re-run of the whole pass).                               *)
(***************************************************************************)
OpenDem == BS \o "begin{dem_box}{T}"
OpenEj == BS \o "begin{ej_box}{{U}}"
RawDem == BS \o "begin{dem_box}{"
WholeEj == OpenEj \o " a " \o EndPattern("ej_box")
BoxPieces ==
    {OpenDem, OpenEj, RawDem, EndPattern("dem_box"), EndPattern("ej_box"), " a ",
     WholeEj}
BoxDocs == DocsOver(BoxPieces, MaxBoxPieces)

\* the values of max_depth the outermost call is made with
BoxDepths == (0..MaxSmallDepth) \cup {DefaultMaxDepth}

\* the locals of an iteration before its search has run
NoBox ==
    [found |-> FALSE, start |-> -1, mend |-> -1, box_type |-> "", title |-> "",
     title_end |-> -1, end_pos |-> -1]

NewFrame(s, d) ==
    [content |-> s, max_depth |-> d, pos |-> 0, result |-> <<>>,
     has_changes |-> FALSE, box |-> NoBox, waiting |-> "none"]

Top == stack[Len(stack)]
Callers == SubSeq(stack, 1, Len(stack) - 1)
SetTop(f) == [stack EXCEPT ![Len(stack)] = f]

\* a converter on which convert has not been called yet
InitBox ==
    /\ input = ""
    /\ pc = "idle"
    /\ BoxIdle
    /\ ParseIdle
    /\ ExtIdle
    /\ MathIdle
    /\ TitleIdle

\* a caller invokes convert(content, max_depth)
BoxCall ==
    /\ pc = "idle"
    /\ \E s \in BoxDocs, d \in BoxDepths :
          /\ input' = s
          /\ depth_arg' = d
          /\ stack' = <<NewFrame(s, d)>>
    /\ pc' = "box_call"
    /\ UNCHANGED <<extVars, retval, mathVars, titleVars, parseVars>>

\* if max_depth <= 0: return content
BoxGuard ==
    /\ pc = "box_call"
    /\ Top.max_depth <= 0
    /\ retval' = Top.content
    /\ stack' = Callers
    /\ pc' = "box_return"
    /\ UNCHANGED <<extVars, input, depth_arg, mathVars, titleVars, parseVars>>

\* result = []; pos = 0; has_changes = False
BoxEnter ==
    /\ pc = "box_call"
    /\ Top.max_depth > 0
    /\ pc' = "box_scan"
    /\ UNCHANGED <<extVars, input, boxVars, mathVars, titleVars, parseVars>>

\* match = self.box_start_pattern.search(content, pos), and for a match:
\* box_type, title, title_end = ..., end_pos = content.find(end_pattern, title_end)
BoxSearch ==
    /\ pc = "box_scan"
    /\ stack' = SetTop([Top EXCEPT !.box = BoxAt(Top.content, Top.pos)])
    /\ pc' = "box_found"
    /\ UNCHANGED <<extVars, input, depth_arg, retval, mathVars, titleVars, parseVars>>

\* if not match: result.append(content[pos:]); break
BoxNoMore ==
    /\ pc = "box_found"
    /\ ~Top.box.found
    /\ stack' = SetTop([Top EXCEPT !.result = Append(@, SliceFrom(Top.content, Top.pos))])
    /\ pc' = "box_after"
    /\ UNCHANGED <<extVars, input, depth_arg, retval, mathVars, titleVars, parseVars>>

\* if end_pos == -1: result.append(match.group(0)); pos = match.end(); continue
BoxUnterminated ==
    /\ pc = "box_found"
    /\ Top.box.found
    /\ Top.box.end_pos = -1
    /\ stack' = SetTop([Top EXCEPT
           !.result = Append(Append(@, Slice(Top.content, Top.pos, Top.box.start)),
                             Slice(Top.content, Top.box.start, Top.box.mend)),
           !.pos = ResumeAfterMarker(Top.box)])
    /\ pc' = "box_scan"
    /\ UNCHANGED <<extVars, input, depth_arg, retval, mathVars, titleVars, parseVars>>

\* box_content_converted = self.convert(box_content, max_depth - 1): the call
BoxRecurse ==
    /\ pc = "box_found"
    /\ Top.box.found
    /\ Top.box.end_pos # -1
    /\ stack' = Append(
           SetTop([Top EXCEPT
               !.result = Append(@, Slice(Top.content, Top.pos, Top.box.start)),
               !.waiting = "body"]),
           NewFrame(BoxBody(Top.content, Top.box), Top.max_depth - 1))
    /\ pc' = "box_call"
    /\ UNCHANGED <<extVars, input, depth_arg, retval, mathVars, titleVars, parseVars>>

\* result.append(converted); has_changes = True; pos = end_pos + len(end_pattern)
BoxSubstitute ==
    /\ pc = "box_return"
    /\ stack # <<>>
    /\ Top.waiting = "body"
    /\ stack' = SetTop([Top EXCEPT
           !.result = Append(@, Converted(Top.box.box_type, Top.box.title, retval)),
           !.has_changes = TRUE,
           !.pos = Top.box.end_pos + Len(EndPattern(Top.box.box_type)),
           !.waiting = "none"])
    /\ pc' = "box_scan"
    /\ UNCHANGED <<extVars, input, depth_arg, retval, mathVars, titleVars, parseVars>>

\* if has_changes and max_depth > 0 and search(final_result):
\*     return self.convert(final_result, max_depth - 1): the call
BoxRerun ==
    /\ pc = "box_after"
    /\ WantsRerun(Join(Top.result), Top.has_changes, Top.max_depth)
    /\ stack' = Append(SetTop([Top EXCEPT !.waiting = "rerun"]),
                       NewFrame(Join(Top.result), RerunDepth(Top.max_depth)))
    /\ pc' = "box_call"
    /\ UNCHANGED <<extVars, input, depth_arg, retval, mathVars, titleVars, parseVars>>

\* return final_result
BoxFinish ==
    /\ pc = "box_after"
    /\ ~WantsRerun(Join(Top.result), Top.has_changes, Top.max_depth)
    /\ retval' = Join(Top.result)
    /\ stack' = Callers
    /\ pc' = "box_return"
    /\ UNCHANGED <<extVars, input, depth_arg, mathVars, titleVars, parseVars>>

\* return self.convert(final_result, max_depth - 1): the value is passed up
BoxPassUp ==
    /\ pc = "box_return"
    /\ stack # <<>>
    /\ Top.waiting = "rerun"
    /\ stack' = Callers
    /\ UNCHANGED <<extVars, pc, input, depth_arg, retval, mathVars, titleVars, parseVars>>

\* the outermost call has returned
BoxDone ==
    /\ pc = "box_return"
    /\ stack = <<>>
    /\ pc' = "box_done"
    /\ UNCHANGED <<extVars, input, boxVars, mathVars, titleVars, parseVars>>

\* the steps of a call that is running
BoxRun ==
    \/ BoxGuard \/ BoxEnter \/ BoxSearch \/ BoxNoMore \/ BoxUnterminated
    \/ BoxRecurse \/ BoxSubstitute \/ BoxRerun \/ BoxFinish \/ BoxPassUp \/ BoxDone

NextBox == BoxCall \/ BoxRun

SpecBox == InitBox /\ [][NextBox]_vars

(***************************************************************************)
(* A call of StructureConverter.convert, one pass a step.  The buffer      *)
(* protected_content of the source is the variable content.                *)
(***************************************************************************)
StructPieces ==
    {"$a$", "$$a$$", "a", "}", BS \o "textbf{", BS \o "hypersetup{",
     BS \o "item ", BS \o "begin{itemize}", BS \o "end{itemize}"}
StructDocs == DocsOver(StructPieces, MaxStructPieces)

InitStruct ==
    /\ input \in StructDocs
    /\ content = input
    /\ protected_blocks = <<>>
    /\ restore_i = 0
    /\ pc = "sc_protect"
    /\ TitleIdle
    /\ BoxIdle
    /\ ParseIdle
    /\ ExtIdle

\* protected_content, protected_blocks = protect_existing_math(content)
StructProtect ==
    /\ pc = "sc_protect"
    /\ LET r == protect_existing_math(content)
       IN  /\ content' = r.text
           /\ protected_blocks' = r.blocks
    /\ pc' = "sc_texorpdfstring"
    /\ UNCHANGED <<extVars, input, restore_i, titleVars, boxVars, parseVars>>

\* protected_content = self.process_texorpdfstring(protected_content)
StructTexorpdfstring ==
    /\ pc = "sc_texorpdfstring"
    /\ content' = process_texorpdfstring(content)
    /\ pc' = "sc_environments"
    /\ UNCHANGED <<extVars, input, protected_blocks, restore_i, titleVars, boxVars, parseVars>>

\* protected_content = self.convert_environments(protected_content)
StructEnvironments ==
    /\ pc = "sc_environments"
    /\ content' = convert_environments(content)
    /\ pc' = "sc_sections"
    /\ UNCHANGED <<extVars, input, protected_blocks, restore_i, titleVars, boxVars, parseVars>>

\* protected_content = self.convert_sections(protected_content)
StructSections ==
    /\ pc = "sc_sections"
    /\ content' = convert_sections(content)
    /\ pc' = "sc_formatting"
    /\ UNCHANGED <<extVars, input, protected_blocks, restore_i, titleVars, boxVars, parseVars>>

\* protected_content = self.convert_text_formatting(protected_content)
StructFormatting ==
    /\ pc = "sc_formatting"
    /\ content' = convert_text_formatting(content)
    /\ pc' = "sc_lists"
    /\ UNCHANGED <<extVars, input, protected_blocks, restore_i, titleVars, boxVars, parseVars>>

\* protected_content = self.convert_lists(protected_content)
StructLists ==
    /\ pc = "sc_lists"
    /\ content' = convert_lists(content)
    /\ pc' = "sc_images"
    /\ UNCHANGED <<extVars, input, protected_blocks, restore_i, titleVars, boxVars, parseVars>>

\* protected_content = self.convert_images_and_urls(protected_content)
StructImages ==
    /\ pc = "sc_images"
    /\ content' = convert_images_and_urls(content)
    /\ pc' = "sc_remove"
    /\ UNCHANGED <<extVars, input, protected_blocks, restore_i, titleVars, boxVars, parseVars>>

\* protected_content = self.remove_latex_commands(protected_content)
StructRemove ==
    /\ pc = "sc_remove"
    /\ content' = remove_latex_commands(content)
    /\ pc' = "sc_restore"
    /\ UNCHANGED <<extVars, input, protected_blocks, restore_i, titleVars, boxVars, parseVars>>

\* converted_content = restore_protected_math(protected_content, protected_blocks)
StructRestore ==
    /\ pc = "sc_restore"
    /\ content' = restore_protected_math(content, protected_blocks)
    /\ pc' = "sc_done"
    /\ UNCHANGED <<extVars, input, protected_blocks, restore_i, titleVars, boxVars, parseVars>>

NextStruct ==
    \/ StructProtect \/ StructTexorpdfstring \/ StructEnvironments
    \/ StructSections \/ StructFormatting \/ StructLists \/ StructImages
    \/ StructRemove \/ StructRestore

SpecStruct == InitStruct /\ [][NextStruct]_vars

(***************************************************************************)
(* A call of TexToMdxParser.parse, one statement a step.  The system the   *)
(* program runs on has one of the converters installed, or none; whether   *)
(* the conversion of a picture succeeds is up to the external tools.       *)
(***************************************************************************)
WholeTikz == TikzBlock("a")
WholeTabular == BS \o "begin{tabular}{c}$a$" \o BS \o "end{tabular}"
ParsePieces ==
    {BS \o "title{T a}", BS \o "begin{document}", BS \o "end{document}",
     WholeTikz, BS \o "begin{tikzpicture}", WholeTabular, BS \o "vspace{a}",
     BS \o "label{a}", BS \o "begin{lstlisting}", "a", " "}
\* two whole documents: a box whose body is a list, and a section with a
\* display formula, bold text and a link
ListInBox ==
    BS \o "begin{ej_box}{T}" \o BS \o "begin{itemize}" \o BS \o "item a"
        \o BS \o "end{itemize}" \o BS \o "end{ej_box}"
ExampleDocument ==
    BS \o "section{Intro}\n" \o BS \o "[x^2" \o BS \o "]\nSee " \o BS \o "textbf{bold} and "
        \o BS \o "url{http://x}."
\* title arguments with escaped braces: a pair, a closing one, an opening one
EscapedTitles ==
    {"A " \o BS \o "{nested" \o BS \o "} B", "A " \o BS \o "} B", "A " \o BS \o "{ B"}
TitleDocument(title) == BS \o "title{" \o title \o "}"
ParseExamples == {ListInBox, ExampleDocument} \cup {TitleDocument(t) : t \in EscapedTitles}
ParseDocs == DocsOver(ParsePieces, MaxParsePieces) \cup ParseExamples

InitParse ==
    /\ input \in ParseDocs
    /\ content = input
    /\ protected_blocks = <<>>
    /\ restore_i = 0
    /\ pc = "parse_metadata"
    /\ TitleIdle
    /\ BoxIdle
    /\ ExtIdle
    /\ converter \in Converters \cup {"none"}
    /\ raised = "none"
    /\ metadata = <<>>
    /\ title_slug = ""
    /\ tikz_blocks = <<>>
    /\ tikz_i = 0
    /\ image_counter = 0
    /\ svg_filenames = <<>>

\* metadata = self.extract_metadata(content)
ParseExtractMetadata ==
    /\ pc = "parse_metadata"
    /\ metadata' = extract_metadata(content)
    /\ pc' = "parse_slug"
    /\ UNCHANGED <<extVars, input, mathVars, titleVars, boxVars, converter, raised,
                   title_slug, tikzVars>>

\* title_slug = self._create_slug(metadata.get('title', 'documento'))
ParseCreateSlug ==
    /\ pc = "parse_slug"
    /\ title_slug' = create_slug(DictGet(metadata, "title", "documento"))
    /\ pc' = "parse_tikz_init"
    /\ UNCHANGED <<extVars, input, mathVars, titleVars, boxVars, converter, raised,
                   metadata, tikzVars>>

\* self.tikz_converter = TikzConverter(filename_prefix=title_slug)
ParseTikzInit ==
    /\ pc = "parse_tikz_init"
    /\ converter \in Converters
    /\ image_counter' = 0
    /\ pc' = "parse_preamble"
    /\ UNCHANGED <<extVars, input, mathVars, titleVars, boxVars, converter, raised,
                   metadata, title_slug, tikz_blocks, tikz_i, svg_filenames>>

\* TikzConverter.__init__: if self.converter is None: raise RuntimeError(...)
ParseTikzInitRaises ==
    /\ pc = "parse_tikz_init"
    /\ converter \notin Converters
    /\ raised' = "RuntimeError"
    /\ pc' = "parse_raised"
    /\ UNCHANGED <<extVars, input, mathVars, titleVars, boxVars, converter,
                   metadata, title_slug, tikzVars>>

\* content = self.remove_preamble(content)
ParseRemovePreamble ==
    /\ pc = "parse_preamble"
    /\ content' = remove_preamble(content)
    /\ pc' = "parse_minipage"
    /\ UNCHANGED <<extVars, input, protected_blocks, restore_i, titleVars, boxVars, parseVars>>

\* content = self.remove_minipage_environments(content)
ParseRemoveMinipage ==
    /\ pc = "parse_minipage"
    /\ content' = remove_minipage_environments(content)
    /\ pc' = "parse_lstlisting"
    /\ UNCHANGED <<extVars, input, protected_blocks, restore_i, titleVars, boxVars, parseVars>>

\* content = self.convert_lstlisting_to_code_blocks(content)
ParseConvertLstlisting ==
    /\ pc = "parse_lstlisting"
    /\ content' = convert_lstlisting_to_code_blocks(content)
    /\ pc' = "parse_vspace"
    /\ UNCHANGED <<extVars, input, protected_blocks, restore_i, titleVars, boxVars, parseVars>>

\* content = self.remove_vspace_commands(content)
ParseRemoveVspace ==
    /\ pc = "parse_vspace"
    /\ content' = remove_vspace_commands(content)
    /\ pc' = "parse_equation"
    /\ UNCHANGED <<extVars, input, protected_blocks, restore_i, titleVars, boxVars, parseVars>>

\* content = self.remove_equation_commands(content)
ParseRemoveEquationCommands ==
    /\ pc = "parse_equation"
    /\ content' = remove_equation_commands(content)
    /\ pc' = "parse_tabular"
    /\ UNCHANGED <<extVars, input, protected_blocks, restore_i, titleVars, boxVars, parseVars>>

\* content = self.structure_converter.convert_tabular_to_array(content)
ParseConvertTabular ==
    /\ pc = "parse_tabular"
    /\ content' = convert_tabular_to_array(content)
    /\ pc' = "parse_tikz"
    /\ UNCHANGED <<extVars, input, protected_blocks, restore_i, titleVars, boxVars, parseVars>>

\* convert_content: tikz_blocks = self.extract_tikz_blocks(content)
ParseTikzExtract ==
    /\ pc = "parse_tikz"
    /\ tikz_blocks' = extract_tikz_blocks(content)
    /\ tikz_i' = 0
    /\ svg_filenames' = <<>>
    /\ pc' = "parse_tikz_loop"
    /\ UNCHANGED <<extVars, input, mathVars, titleVars, boxVars, converter, raised,
                   metadata, title_slug, image_counter>>

\* convert_content, an iteration whose convert_tikz_to_svg returns
ParseTikzConverted ==
    /\ pc = "parse_tikz_loop"
    /\ tikz_i < Len(tikz_blocks)
    /\ LET svg_filename == SvgFilename(title_slug, image_counter)
       IN  /\ svg_filenames' = Append(svg_filenames, svg_filename)
           /\ content' = StrReplace(content, TikzBlock(tikz_blocks[tikz_i + 1]),
                                    ImageMarkdown(svg_filename))
    /\ image_counter' = image_counter + 1
    /\ tikz_i' = tikz_i + 1
    /\ UNCHANGED <<extVars, pc, input, protected_blocks, restore_i, titleVars, boxVars,
                   converter, raised, metadata, title_slug, tikz_blocks>>

\* an iteration whose convert_tikz_to_svg raises and that takes the block
\* out of the text
ParseTikzFailedDropsBlock ==
    /\ pc = "parse_tikz_loop"
    /\ tikz_i < Len(tikz_blocks)
    /\ content' = StrReplace(content, TikzBlock(tikz_blocks[tikz_i + 1]), "")
    /\ image_counter' = image_counter + 1
    /\ tikz_i' = tikz_i + 1
    /\ UNCHANGED <<extVars, pc, input, protected_blocks, restore_i, titleVars, boxVars,
                   converter, raised, metadata, title_slug, tikz_blocks, svg_filenames>>

\* an iteration whose convert_tikz_to_svg raises before the counter has
\* advanced: the next attempt is given the same file name
ParseTikzFailedKeepsCounter ==
    /\ pc = "parse_tikz_loop"
    /\ tikz_i < Len(tikz_blocks)
    /\ tikz_i' = tikz_i + 1
    /\ UNCHANGED <<extVars, pc, input, mathVars, titleVars, boxVars, converter, raised,
                   metadata, title_slug, tikz_blocks, svg_filenames, image_counter>>

\* convert_content, an iteration whose convert_tikz_to_svg raises: the
\* exception is caught and the block stays in the text
ParseTikzFailed ==
    /\ pc = "parse_tikz_loop"
    /\ tikz_i < Len(tikz_blocks)
    /\ image_counter' = image_counter + 1
    /\ tikz_i' = tikz_i + 1
    /\ UNCHANGED <<extVars, pc, input, mathVars, titleVars, boxVars, converter, raised,
                   metadata, title_slug, tikz_blocks, svg_filenames>>

\* convert_content: return content, svg_filenames
ParseTikzReturn ==
    /\ pc = "parse_tikz_loop"
    /\ tikz_i >= Len(tikz_blocks)
    /\ pc' = "parse_box"
    /\ UNCHANGED <<extVars, input, mathVars, titleVars, boxVars, parseVars>>

\* content = self.box_converter.convert(content, content_processor=...):
\* BoxConverter.convert(self, content, max_depth=10) has no parameter
\* content_processor, so the call raises TypeError before convert runs
ParseBoxConvert ==
    /\ pc = "parse_box"
    /\ raised' = "TypeError"
    /\ pc' = "parse_raised"
    /\ UNCHANGED <<extVars, input, mathVars, titleVars, boxVars, converter,
                   metadata, title_slug, tikzVars>>

NextParse ==
    \/ ParseExtractMetadata \/ ParseCreateSlug \/ ParseTikzInit
    \/ ParseTikzInitRaises \/ ParseRemovePreamble \/ ParseRemoveMinipage
    \/ ParseConvertLstlisting \/ ParseRemoveVspace
    \/ ParseRemoveEquationCommands \/ ParseConvertTabular \/ ParseTikzExtract
    \/ ParseTikzConverted \/ ParseTikzFailed \/ ParseTikzReturn
    \/ ParseBoxConvert

SpecParse == InitParse /\ [][NextParse]_vars

(***************************************************************************)
(* Claims about the protect / restore cycle.                               *)
(***************************************************************************)
\* the guarded text: content right after protect_existing_math returned
Guarded == pc = "restoring" /\ restore_i = 0

\* C1: restore_protected_math applied to the result of
\* protect_existing_math(T) returns T exactly, for every text T.
C1_RoundTrip == pc = "restored" => content = input

\* C2: the guarded text returned by protect_existing_math contains no
\* unescaped "$" (a "$" that no backslash precedes).
C2_NoUnescapedDollar ==
    Guarded => \A i \in 0..(Len(content) - 1) :
                  ~(Ch(content, i) = "$" /\ Ch(content, i - 1) # BS)

\* C3: in a protect / restore cycle the placeholders are pairwise distinct,
\* no placeholder occurs in the document as it was given, every protected
\* span is literal text of the document, and when the restore loop reaches
\* index i the text holds exactly one occurrence of placeholder i for it to
\* replace.
C3_PlaceholderInvariants ==
    pc = "restoring" =>
        LET n == Len(protected_blocks)
        IN  /\ \A i, j \in 0..(n - 1) : i # j => Placeholder(i) # Placeholder(j)
            /\ \A i \in 0..(n - 1) : Find(input, Placeholder(i), 0) = -1
            /\ \A i \in 0..(n - 1) : Find(input, protected_blocks[i + 1], 0) # -1
            /\ restore_i < n => StrCount(content, Placeholder(restore_i)) = 1

\* The case of C4: the document is pre $$c$$ post, where pre and post hold no
\* "$", no backslash precedes the opening "$$", and c holds at least one "$",
\* each of them single (no "$" next to it).
LastDisplayDelim(s) ==
    LET hits == {i \in 0..(Len(s) - 2) : StartsAt(s, i, "$$")}
    IN  IF hits = {} THEN -1 ELSE CHOOSE i \in hits : \A j \in hits : j <= i

DisplayOpen(s) == Find(s, "$$", 0)
DisplayPre(s) == Slice(s, 0, DisplayOpen(s))
DisplayBody(s) == Slice(s, DisplayOpen(s) + 2, LastDisplayDelim(s))
DisplayPost(s) == SliceFrom(s, LastDisplayDelim(s) + 2)

SingleDollarsOnly(c) ==
    /\ Find(c, "$", 0) # -1
    /\ \A i \in 0..(Len(c) - 1) :
          Ch(c, i) = "$" => i > 0 /\ i < Len(c) - 1 /\ Ch(c, i + 1) # "$"

DisplayWithInnerDollars(s) ==
    /\ DisplayOpen(s) # -1
    /\ LastDisplayDelim(s) >= DisplayOpen(s) + 2
    /\ Find(DisplayPre(s), "$", 0) = -1
    /\ Find(DisplayPost(s), "$", 0) = -1
    /\ Ch(s, DisplayOpen(s) - 1) # BS
    /\ SingleDollarsOnly(DisplayBody(s))

\* C4: display spans are protected before inline spans: for a display span
\* whose content holds single "$" characters, exactly one protected span is
\* recorded, the whole display span, and the span is replaced by the one
\* placeholder.
C4_DisplayBeforeInline ==
    Guarded /\ DisplayWithInnerDollars(input) =>
        /\ protected_blocks = << "$$" \o DisplayBody(input) \o "$$" >>
        /\ content = DisplayPre(input) \o Placeholder(0) \o DisplayPost(input)

C4_Witness ==
    /\ Guarded
    /\ DisplayWithInnerDollars(input)
    /\ Len(protected_blocks) = 1

(***************************************************************************)
(* Claims about the brace-balanced title scanner.                          *)
(***************************************************************************)
\* the number of consecutive backslashes that end just before offset k,
\* counted from the start of the scan
BackslashRun(s, start, k) ==
    LET ns == {n \in 0..(k - start) : \A j \in (k - n)..(k - 1) : Ch(s, j) = BS}
    IN  CHOOSE n \in ns : \A m \in ns : m <= n

\* the character at k is a brace that no backslash escapes
UnescapedBrace(s, start, k, b) ==
    Ch(s, k) = b /\ BackslashRun(s, start, k) % 2 = 0

\* the nesting depth in front of offset k: 1 at the start, plus the
\* unescaped "{" and minus the unescaped "}" seen since
DepthAt(s, start, k) ==
    1 + Cardinality({j \in start..(k - 1) : UnescapedBrace(s, start, j, "{")})
      - Cardinality({j \in start..(k - 1) : UnescapedBrace(s, start, j, "}")})

\* the offset of the brace that closes the one in front of start, or -1
MatchingClose(s, start) ==
    LET cs == {k \in start..(Len(s) - 1) :
                  UnescapedBrace(s, start, k, "}") /\ DepthAt(s, start, k) = 1}
    IN  IF cs = {} THEN -1 ELSE Min(cs)

\* C6: from an offset just past an opening brace the scanner keeps depth
\* equal to 1 plus the unescaped "{" minus the unescaped "}" read so far
\* (an escaped character never counts), and when the matching closing brace
\* exists it returns the text up to, not including, that brace and the
\* offset just past it.
C6_TitleScan ==
    /\ pc = "title_scan" => depth = DepthAt(input, start_pos, title_i)
    /\ pc = "title_done" /\ MatchingClose(input, start_pos) # -1 =>
          /\ ReturnedTitle = Slice(input, start_pos, MatchingClose(input, start_pos))
          /\ ReturnedEnd = MatchingClose(input, start_pos) + 1

C6_Witness ==
    /\ pc = "title_done"
    /\ MatchingClose(input, start_pos) # -1
    /\ Find(ReturnedTitle, BS \o "}", 0) # -1
    /\ Find(ReturnedTitle, "{", 0) # -1

(***************************************************************************)
(* Claims about BoxConverter.convert.                                      *)
(***************************************************************************)
\* the text the outermost call returned
BoxOutput == retval

\* the offsets of the opening markers of a text
MarkerOffsets(s) == {i \in 0..(Len(s) - 1) : BoxStartMatch(s, i).ok}

\* the offset just past the title that starts at offset t (the end of the
\* text when its brace is never closed)
TitleEndOf(s, t) ==
    IF MatchingClose(s, t) = -1 THEN Len(s) ELSE MatchingClose(s, t) + 1

\* the opening marker at offset i has no closing marker after its title
Unterminated(s, i) ==
    LET m == BoxStartMatch(s, i)
    IN  Find(s, EndPattern(m.box_type), TitleEndOf(s, m.end)) = -1

FirstMarker(s) == BoxStartMatch(s, Min(MarkerOffsets(s)))

FirstMarkerUnterminated(s) ==
    MarkerOffsets(s) # {} /\ Unterminated(s, Min(MarkerOffsets(s)))

\* C7: when the first opening marker of the document has no closing marker
\* (its title brace may be open too), the output keeps the text up to and
\* including that marker; it is that text followed by the conversion of
\* everything after the marker, so complete boxes after it are converted;
\* and when no marker of the document has a closing marker the output is
\* the input, character for character.
C7_UnterminatedKept ==
    pc = "box_done" /\ FirstMarkerUnterminated(input) =>
        LET keep == Slice(input, 0, FirstMarker(input).end)
        IN  /\ StartsAt(BoxOutput, 0, keep)
            /\ BoxOutput = keep \o BoxConvert(SliceFrom(input, Len(keep)), depth_arg)
            /\ (\A j \in MarkerOffsets(input) : Unterminated(input, j)) =>
                   BoxOutput = input

C7_Witness ==
    /\ pc = "box_done"
    /\ FirstMarkerUnterminated(input)
    /\ Find(BoxOutput, "<EjBox title=", 0) > 0
    /\ Find(input, " a ", 0) # -1

\* The case of C8: the document holds exactly one box of type ta and one of
\* type tb, both with a closed title, the second one inside the body of the
\* first.
NestedBoxes(s, ta, tb) ==
    LET oa == Find(s, BS \o "begin{" \o ta \o "}{", 0)
        ob == Find(s, BS \o "begin{" \o tb \o "}{", 0)
        ea == Find(s, EndPattern(ta), 0)
        eb == Find(s, EndPattern(tb), 0)
    IN  /\ ta # tb
        /\ Cardinality(MarkerOffsets(s)) = 2
        /\ StrCount(s, EndPattern(ta)) = 1
        /\ StrCount(s, EndPattern(tb)) = 1
        /\ oa # -1 /\ ob # -1
        /\ MatchingClose(s, oa + Len(ta) + 9) # -1
        /\ MatchingClose(s, ob + Len(tb) + 9) # -1
        /\ TitleEndOf(s, oa + Len(ta) + 9) <= ob
        /\ TitleEndOf(s, ob + Len(tb) + 9) <= eb
        /\ eb < ea

\* the output expected for NestedBoxes(s, ta, tb)
NestedExpected(s, ta, tb) ==
    LET oa  == Find(s, BS \o "begin{" \o ta \o "}{", 0)
        ob  == Find(s, BS \o "begin{" \o tb \o "}{", 0)
        ea  == Find(s, EndPattern(ta), 0)
        eb  == Find(s, EndPattern(tb), 0)
        tsa == oa + Len(ta) + 9
        tsb == ob + Len(tb) + 9
        inner == "<" \o BoxTag(tb) \o " title=\"" \o Slice(s, tsb, MatchingClose(s, tsb))
                 \o "\">\n\n" \o Strip(Slice(s, TitleEndOf(s, tsb), eb))
                 \o "\n\n</" \o BoxTag(tb) \o ">"
    IN  Slice(s, 0, oa)
        \o "<" \o BoxTag(ta) \o " title=\"" \o Slice(s, tsa, MatchingClose(s, tsa))
        \o "\">\n\n"
        \o Strip(Slice(s, TitleEndOf(s, tsa), ob) \o inner
                 \o Slice(s, eb + Len(EndPattern(tb)), ea))
        \o "\n\n</" \o BoxTag(ta) \o ">"
        \o SliceFrom(s, ea + Len(EndPattern(ta)))

BoxTypePairs == {<<"dem_box", "ej_box">>, <<"ej_box", "dem_box">>}

\* C8: for a box of type A whose body holds a complete box of another type
\* B (and a depth allowance of at least the two levels), the output is the A
\* container wrapped around the converted B container, and it holds no
\* literal opening or closing marker of B.
C8_InnerBoxFirst ==
    \A tt \in BoxTypePairs :
        pc = "box_done" /\ depth_arg >= 2 /\ NestedBoxes(input, tt[1], tt[2]) =>
            /\ BoxOutput = NestedExpected(input, tt[1], tt[2])
            /\ Find(BoxOutput, BS \o "begin{" \o tt[2] \o "}{", 0) = -1
            /\ Find(BoxOutput, EndPattern(tt[2]), 0) = -1

C8_Witness ==
    /\ pc = "box_done"
    /\ depth_arg = DefaultMaxDepth
    /\ NestedBoxes(input, "dem_box", "ej_box")
    /\ Find(BoxOutput, "<EjBox title=", 0) > Find(BoxOutput, "<DemBox title=", 0)

\* every call on the stack was made with one less than its caller's
\* max_depth, so there are at most max_depth + 1 of them
DepthCountsDown ==
    /\ Len(stack) <= depth_arg + 1
    /\ \A k \in 1..Len(stack) : stack[k].max_depth = depth_arg - (k - 1)

\* a call made with an exhausted depth returns its text as it is
GuardReturnsText ==
    pc = "box_call" /\ Top.max_depth <= 0 =>
        pc' = "box_return" /\ retval' = Top.content

\* The progress a call on the stack has left: the text after pos, then the
\* phase of its pass (called, searching, match examined, scan finished or
\* waiting for a box body, waiting for the re-run).
WaitingRank(f) == IF f.waiting = "body" THEN 1 ELSE 0

PhaseRank(k) ==
    IF k < Len(stack) THEN WaitingRank(stack[k])
    ELSE CASE pc = "box_call"  -> 4
           [] pc = "box_scan"  -> 3
           [] pc = "box_found" -> 2
           [] pc = "box_after" -> 1
           [] OTHER            -> WaitingRank(stack[k])

FrameRank(k) == 5 * (Len(stack[k].content) - stack[k].pos) + PhaseRank(k)

\* the ranks of the active calls, outermost first
Rank ==
    <<IF pc = "box_done" THEN 0 ELSE 1>> \o [k \in 1..Len(stack) |-> FrameRank(k)]

\* a comes before b in dictionary order (a proper prefix comes first)
LexLess(a, b) ==
    \E k \in 1..Len(b) :
        /\ \A j \in 1..(k - 1) : j <= Len(a) /\ a[j] = b[j]
        /\ k > Len(a) \/ a[k] < b[k]

\* every step of a running call lowers the rank
RankDecreases == BoxRun => LexLess(Rank', Rank)

\* a running call always has a step to take: a call that returns finds no
\* caller, or a caller waiting for a box body or for the re-run
NeverStuck ==
    pc = "box_return" /\ stack # <<>> => Top.waiting \in {"body", "rerun"}

\* C9: convert terminates on every input: every step of a call lowers a
\* rank in a well-founded order (dictionary order on sequences of naturals
\* of length at most max_depth + 2) and a running call is never stuck; its
\* nested calls (box bodies and re-runs of the pass) count max_depth down by
\* one each, and a call that finds the depth exhausted returns its text
\* unchanged instead of failing.
C9_Terminates ==
    /\ [][RankDecreases]_vars
    /\ [](NeverStuck)
    /\ [](DepthCountsDown)
    /\ [][GuardReturnsText]_vars

\* a complete box reaches a call whose depth is exhausted
C9_Witness ==
    /\ pc = "box_call"
    /\ Len(stack) > 1
    /\ Top.max_depth = 0
    /\ BoxAt(Top.content, 0).found
    /\ BoxAt(Top.content, 0).end_pos # -1

(***************************************************************************)
(* Claims about StructureConverter.convert.                                *)
(***************************************************************************)
\* C5: no pass run between protect and restore in StructureConverter.convert
\* alters math content: every math span protected at the start of convert
\* occurs verbatim in the text convert returns.
C5_MathRestored ==
    pc = "sc_done" =>
        \A i \in 1..Len(protected_blocks) : Find(content, protected_blocks[i], 0) # -1

(***************************************************************************)
(* Claims about TexToMdxParser.parse.                                      *)
(***************************************************************************)
\* C10: the core transformation has no document-level fatal error: on a
\* system with a usable graphics toolchain (one of the converters is
\* installed) a call of parse never raises, whatever the document.
C10_ParseNeverRaises == converter \in Converters => raised = "none"

\* the box-normalization step of parse has been taken
BoxStepTaken == pc = "parse_raised" /\ raised = "TypeError"

\* C11: in the box-normalization step of the pipeline convert_lists is
\* applied to the body of each box before the box is replaced by its
\* container: once the step is taken on a box whose body is an itemize, the
\* text holds the container with the Markdown list in it and no list
\* environment.
C11_ListsInBoxes ==
    BoxStepTaken /\ input = ListInBox =>
        /\ Find(content, "<EjBox title=\"T\">", 0) # -1
        /\ Find(content, "\n- a\n", 0) # -1
        /\ Find(content, BS \o "begin{itemize}", 0) = -1

\* the passes of parse in the order the documentation gives them
DocumentedOrder ==
    << "parse_metadata", "parse_slug", "parse_preamble", "parse_minipage", "parse_vspace",
       "parse_lstlisting", "parse_equation", "parse_tabular", "parse_tikz", "parse_box",
       "parse_math", "parse_structure", "parse_postprocess", "parse_frontmatter" >>

\* the pass a position of parse belongs to: building the graphics converter
\* (line 29) is counted with the slug it is given, the loop over the blocks
\* with the graphics conversion
PassOf(p) ==
    CASE p = "parse_tikz_init" -> "parse_slug"
      [] p = "parse_tikz_loop" -> "parse_tikz"
      [] OTHER -> p

\* the place of a position's pass in the documented order, 0 when it has none
PassIndex(p) ==
    LET places == {i \in 1..Len(DocumentedOrder) : DocumentedOrder[i] = PassOf(p)}
    IN  IF places = {} THEN 0 ELSE CHOOSE i \in places : TRUE

\* a step of parse stays in its pass or moves to the next documented one
InDocumentedOrder ==
    converter \in Converters /\ PassIndex(pc) > 0 =>
        \/ PassOf(pc') = PassOf(pc)
        \/ /\ PassIndex(pc) < Len(DocumentedOrder)
           /\ PassOf(pc') = DocumentedOrder[PassIndex(pc) + 1]

\* C12: parse applies its passes in the documented order, each on the output
\* of the one before: with a usable graphics toolchain, every step of parse
\* stays in its pass or moves on to the next pass of the documented order
\* (metadata, slug, preamble, minipage markers, spacing commands, code
\* listings, equation cleanup, tables, graphics, boxes, math, structure,
\* post-processing, frontmatter).
C12_PassOrder == [][InDocumentedOrder]_vars

(***************************************************************************)
(* StructureConverter.convert_lists, one action per statement of its loop. *)
(***************************************************************************)
\* the items the list documents are made of: an unlabelled item, a labelled
\* one, a second unlabelled one and an item with an empty body
ListItems ==
    { [label |-> "", text |-> "a"], [label |-> "L", text |-> "b"],
      [label |-> "", text |-> "c"], [label |-> "", text |-> ""] }

ItemTex(item) ==
    BS \o "item" \o (IF item.label # "" THEN "[" \o item.label \o "]" ELSE "")
       \o " " \o item.text

ItemSeqs == UNION {[1..n -> ListItems] : n \in 0..MaxListItems}

RECURSIVE ListBody(_)
ListBody(items) ==
    IF items = <<>> THEN "" ELSE ItemTex(Head(items)) \o ListBody(Tail(items))

ListEnvs == {"itemize", "enumerate"}

EnvOf(env, body) == BS \o "begin{" \o env \o "}" \o body \o BS \o "end{" \o env \o "}"

\* a list with a list as the body of its second item
NestedList(outer, inner) ==
    EnvOf(outer, BS \o "item a" \o EnvOf(inner, BS \o "item b") \o BS \o "item c")

\* d itemize lists, each the body of the item of the one around it
RECURSIVE NestedItemize(_)
NestedItemize(d) ==
    IF d = 0 THEN "" ELSE EnvOf("itemize", BS \o "item a" \o NestedItemize(d - 1))

\* lists nested as deep as the loop has iterations, and one deeper
DeepLists == {NestedItemize(MaxListIterations), NestedItemize(MaxListIterations + 1)}

ListDocs ==
    {EnvOf(env, ListBody(items)) : env \in ListEnvs, items \in ItemSeqs}
        \cup {NestedList(outer, inner) : outer \in ListEnvs, inner \in ListEnvs}
        \cup DeepLists

InitLists ==
    /\ input \in ListDocs
    /\ content = input
    /\ protected_blocks = <<>>
    /\ restore_i = 0
    /\ pc = "cl_loop"
    /\ TitleIdle
    /\ BoxIdle
    /\ ParseIdle
    /\ iteration = 0
    /\ old_content = ""
    /\ runs = <<>>
    /\ files = <<>>
    /\ call = 0
    /\ first_result = ""

\* while iteration < max_iterations: old_content = content;
\* content = self.itemize_pattern.sub(convert_itemize, content)
ListsItemize ==
    /\ pc = "cl_loop"
    /\ iteration < MaxListIterations
    /\ old_content' = content
    /\ content' = SubItemize(content)
    /\ pc' = "cl_enumerate"
    /\ UNCHANGED <<input, protected_blocks, restore_i, titleVars, boxVars, parseVars,
                   iteration, runVars, convVars>>

\* content = self.enumerate_pattern.sub(convert_enumerate, content)
ListsEnumerate ==
    /\ pc = "cl_enumerate"
    /\ content' = SubEnumerate(content)
    /\ pc' = "cl_check"
    /\ UNCHANGED <<input, protected_blocks, restore_i, titleVars, boxVars, parseVars,
                   listVars, runVars, convVars>>

\* the loop without its break: an iteration that changes nothing is followed
\* by another one
ListsNoBreak ==
    /\ pc = "cl_check"
    /\ content = old_content
    /\ iteration' = iteration + 1
    /\ pc' = "cl_loop"
    /\ UNCHANGED <<input, mathVars, titleVars, boxVars, parseVars, old_content, runVars,
                   convVars>>

\* if content == old_content: break
ListsBreak ==
    /\ pc = "cl_check"
    /\ content = old_content
    /\ pc' = "cl_tags"
    /\ UNCHANGED <<input, mathVars, titleVars, boxVars, parseVars, extVars>>

\* iteration += 1, and the test of the while loop
ListsIterate ==
    /\ pc = "cl_check"
    /\ content # old_content
    /\ iteration' = iteration + 1
    /\ pc' = IF iteration + 1 < MaxListIterations THEN "cl_loop" ELSE "cl_tags"
    /\ UNCHANGED <<input, mathVars, titleVars, boxVars, parseVars, old_content, runVars,
                   convVars>>

\* the removal of the list tags left over, and return content
ListsRemoveTags ==
    /\ pc = "cl_tags"
    /\ content' = RemoveListTags(content)
    /\ pc' = "cl_done"
    /\ UNCHANGED <<input, protected_blocks, restore_i, titleVars, boxVars, parseVars,
                   extVars>>

NextLists ==
    \/ ListsItemize
    \/ ListsEnumerate
    \/ ListsBreak
    \/ ListsIterate
    \/ ListsRemoveTags

SpecLists == InitLists /\ [][NextLists]_vars

(***************************************************************************)
(* Claims about convert_lists.                                             *)
(***************************************************************************)
\* the lines the documentation gives for the items of an enumerate: a
\* labelled item is a bullet with its label in bold, an unlabelled item
\* carries the number of unlabelled items up to and including itself
DocumentedLine(items, k) ==
    IF items[k].label # ""
    THEN "- **" \o items[k].label \o "** " \o items[k].text
    ELSE ToString(Cardinality({j \in 1..k : items[j].label = ""})) \o ". " \o items[k].text

RECURSIVE DocumentedLines(_, _)
DocumentedLines(items, k) ==
    IF k > Len(items) THEN ""
    ELSE DocumentedLine(items, k) \o "\n" \o DocumentedLines(items, k + 1)

\* sequences of items none of which has an empty body
FullItemSeqs == {items \in ItemSeqs : \A k \in 1..Len(items) : items[k].text # ""}

\* C13: in an enumerate environment every item with a label is emitted as
\* a bulleted item with the label in bold, and the unlabelled items are
\* numbered 1, 2, 3, ... in order, the count skipping the labelled items:
\* the converted list is one such line per item.
C13_EnumerateLabels ==
    pc = "cl_done" =>
        \A items \in FullItemSeqs :
            input = EnvOf("enumerate", ListBody(items)) /\ items # <<>> =>
                content = "\n" \o DocumentedLines(items, 1)

\* an enumerate with a labelled item between two unlabelled ones, converted
C13_Witness ==
    /\ pc = "cl_done"
    /\ input = BS \o "begin{enumerate}" \o BS \o "item a" \o BS \o "item[L] b" \o BS
                  \o "item c" \o BS \o "end{enumerate}"
    /\ content = "\n1. a\n- **L** b\n2. c\n"

\* the converted text has a list line, bulleted or numbered, for the item
HasItemLine(s, text) ==
    \E mark \in {"- ", "1. ", "2. ", "3. "} : Find(s, mark \o text, 0) # -1

\* C14: for nested list environments convert_lists converts the innermost
\* list first and the outer list once its body holds no list environment,
\* so no item is lost: the converted text of a list whose second item holds
\* a list has a list line for every item of the inner and the outer list.
C14_NestedItemsKept ==
    pc = "cl_done" /\ (\E outer \in ListEnvs, inner \in ListEnvs : input = NestedList(outer, inner)) =>
        /\ HasItemLine(content, "a")
        /\ HasItemLine(content, "b")
        /\ HasItemLine(content, "c")

\* the items of a sequence that have a body
WithBody(items) == SelectSeq(items, LAMBDA item : item.text # "")

\* one bulleted line per item, the label of a labelled item in bold
RECURSIVE BulletLines(_)
BulletLines(items) ==
    IF items = <<>> THEN ""
    ELSE "- " \o (IF Head(items).label # "" THEN "**" \o Head(items).label \o "** " ELSE "")
              \o Head(items).text \o "\n" \o BulletLines(Tail(items))

\* C15: when a list environment is converted, every item whose body is
\* empty is dropped and emits no line, and the other items are emitted
\* unchanged: the converted list is the list lines of the items that have a
\* body, and nothing when no item has one.
C15_EmptyItemsDropped ==
    pc = "cl_done" =>
        \A items \in ItemSeqs :
            /\ input = EnvOf("itemize", ListBody(items)) =>
                  content = IF WithBody(items) = <<>> THEN ""
                            ELSE "\n" \o BulletLines(WithBody(items))
            /\ input = EnvOf("enumerate", ListBody(items)) =>
                  content = IF WithBody(items) = <<>> THEN ""
                            ELSE "\n" \o DocumentedLines(WithBody(items), 1)

(***************************************************************************)
(* StructureConverter.convert_tabular_to_array, one action per             *)
(* substitution.                                                           *)
(***************************************************************************)
ColumnSpecs == {"{c}", "{r|l}", "{|c|}"}
CellTexts == {"a", "$a$", BS \o "(a" \o BS \o ")", "a&$b$"}
TableWraps == {"none", "center"}
TableMargins == {"", "x"}

Table(spec, cells) == BS \o "begin{tabular}" \o spec \o cells \o BS \o "end{tabular}"

Wrapped(wrap, text) ==
    IF wrap = "center" THEN BS \o "begin{center}" \o text \o BS \o "end{center}" ELSE text

TableParams ==
    [spec : ColumnSpecs, cells : CellTexts, wrap : TableWraps,
     before : TableMargins, after : TableMargins]

TableDoc(d) == d.before \o Wrapped(d.wrap, Table(d.spec, d.cells)) \o d.after

\* two tables side by side in one center environment
TwoTables == Wrapped("center", Table("{c}", "a") \o Table("{c}", "b"))

TableDocs == {TableDoc(d) : d \in TableParams} \cup {TwoTables}

InitTabular ==
    /\ input \in TableDocs
    /\ content = input
    /\ protected_blocks = <<>>
    /\ restore_i = 0
    /\ pc = "ta_center"
    /\ TitleIdle
    /\ BoxIdle
    /\ ParseIdle
    /\ ExtIdle

\* content = center_tabular_pattern.sub(handle_tabular, content)
TabularCenter ==
    /\ pc = "ta_center"
    /\ content' = SubFrom(content, [i \in 0..Len(content) |-> CenterTabularMatch(content, i)], 0)
    /\ pc' = "ta_standalone"
    /\ UNCHANGED <<input, protected_blocks, restore_i, titleVars, boxVars, parseVars,
                   extVars>>

\* content = self.tabular_pattern.sub(handle_tabular, content); return content
TabularStandalone ==
    /\ pc = "ta_standalone"
    /\ content' = SubFrom(content, [i \in 0..Len(content) |-> TabularAt(content, i, FALSE)], 0)
    /\ pc' = "ta_done"
    /\ UNCHANGED <<input, protected_blocks, restore_i, titleVars, boxVars, parseVars,
                   extVars>>

NextTabular ==
    \/ TabularCenter
    \/ TabularStandalone

SpecTabular == InitTabular /\ [][NextTabular]_vars

(***************************************************************************)
(* Claims about convert_tabular_to_array.                                  *)
(***************************************************************************)
ArrayOpen == "$$\n" \o BS \o "begin{array}"
ArrayClose == BS \o "end{array}\n$$"

\* s holds as many display-math array blocks as the input has tabular
\* environments and no tabular tag
OneBlockPerTable(s) ==
    /\ StrCount(s, ArrayOpen) = StrCount(input, BS \o "begin{tabular}")
    /\ StrCount(s, ArrayClose) = StrCount(input, BS \o "begin{tabular}")
    /\ Find(s, "tabular}", 0) = -1

\* the array block of s that opens with the column spec, without its $$
BlockInside(s, spec) ==
    LET b == Find(s, ArrayOpen \o spec, 0)
        e == IF b = -1 THEN -1 ELSE Find(s, ArrayClose, b)
    IN  IF e = -1 THEN "$" ELSE Slice(s, b + 3, e + 11)

\* C16: convert_tabular_to_array turns each tabular environment, standalone
\* or wrapped in center, into one display-math block holding an array
\* environment with the column spec kept verbatim, and no $ delimiter is
\* left inside that block.
C16_TableIsolation ==
    pc = "ta_done" =>
        /\ OneBlockPerTable(content)
        /\ \A d \in TableParams :
              input = TableDoc(d) => Find(BlockInside(content, d.spec), "$", 0) = -1

(***************************************************************************)
(* Claims about the whole pipeline and about the metadata.                 *)
(***************************************************************************)
\* the call of parse has ended, by a return or by an exception
ParseEnded == pc \in {"parse_raised", "parse_done"}

\* the texts occur in s in the order of the sequence, none overlapping the
\* one before, from offset k on
RECURSIVE InOrderFrom(_, _, _)
InOrderFrom(s, texts, k) ==
    IF texts = <<>> THEN TRUE
    ELSE /\ Find(s, Head(texts), k) # -1
         /\ InOrderFrom(s, Tail(texts), Find(s, Head(texts), k) + Len(Head(texts)))

\* C17: converting the document made of \section{Intro}, a line \[x^2\] and
\* a line "See \textbf{bold} and \url{http://x}." through the pipeline
\* yields, in this order, the level-2 heading "## Intro", a display-math
\* block $$ ... $$ holding x^2, the bold markup **bold** and the same-text
\* link [http://x](http://x).
C17_ExampleConverted ==
    ParseEnded /\ converter \in Converters /\ input = ExampleDocument =>
        InOrderFrom(content,
                    <<"## Intro", "$$", "x^2", "$$", "**bold**", "[http://x](http://x)">>, 0)

\* the metadata and the slug of the running call of parse are computed
SlugDerived == pc \notin {"parse_metadata", "parse_slug"}

\* C18: for any \title{...} whose argument holds an escaped brace,
\* extract_metadata returns the whole argument, up to the unescaped brace
\* that closes it, and the slug is the one derived from that argument: A
\* \{nested\} B and a-nested-b for \title{A \{nested\} B}.
C18_EscapedBraceTitle ==
    SlugDerived =>
        /\ \A t \in EscapedTitles :
              input = TitleDocument(t) =>
                  /\ DictGet(metadata, "title", "") = t
                  /\ title_slug = create_slug(t)
        /\ input = TitleDocument("A " \o BS \o "{nested" \o BS \o "} B") => title_slug = "a-nested-b"

(***************************************************************************)
(* TikzConverter.convert_content on its own, on documents of pictures.     *)
(***************************************************************************)
TikzCodes == {"a", "b"}
TikzPieces == {TikzBlock(code) : code \in TikzCodes} \cup {"x", BS \o "begin{tikzpicture}"}
TikzDocs == DocsOver(TikzPieces, MaxTikzPieces)

InitTikz ==
    /\ input \in TikzDocs
    /\ content = input
    /\ protected_blocks = <<>>
    /\ restore_i = 0
    /\ pc = "parse_tikz"
    /\ TitleIdle
    /\ BoxIdle
    /\ ExtIdle
    /\ converter \in Converters
    /\ raised = "none"
    /\ metadata = <<>>
    /\ title_slug = "documento"
    /\ tikz_blocks = <<>>
    /\ tikz_i = 0
    /\ image_counter = 0
    /\ svg_filenames = <<>>

NextTikz ==
    \/ ParseTikzExtract
    \/ ParseTikzConverted
    \/ ParseTikzFailed
    \/ ParseTikzReturn

SpecTikz == InitTikz /\ [][NextTikz]_vars

(***************************************************************************)
(* Claims about convert_content.                                           *)
(***************************************************************************)
\* convert_content has returned
TikzReturned == pc = "parse_box"

\* block k of tikz_blocks was rendered: every attempt takes the next value
\* of image_counter, so the file of block k is the one numbered k - 1
Rendered(k) == \E n \in 1..Len(svg_filenames) : svg_filenames[n] = SvgFilename(title_slug, k - 1)

\* the markup of block k of tikz_blocks
Markup(k) == TikzBlock(tikz_blocks[k])

SharesMarkup(k) ==
    \E j \in 1..Len(tikz_blocks) :
        /\ Rendered(j)
        /\ \/ Find(Markup(k), Markup(j), 0) # -1
           \/ Find(Markup(j), Markup(k), 0) # -1

Procs == {1, 2}

RunDocs ==
    {TikzBlock("a"), TikzBlock("b"), TitleDocument("T") \o TikzBlock("a"),
     TitleDocument("T") \o TikzBlock("b"), TitleDocument("U") \o TikzBlock("b")}

\* the state of a call of parse at its first statement
NewRun(doc) ==
    [pc |-> "parse_start", input |-> doc, content |-> doc, title_slug |-> "",
     image_counter |-> 0, tikz_blocks |-> <<>>, tikz_i |-> 0, svg_filenames |-> <<>>,
     raised |-> "none"]

InitRuns ==
    /\ \E docs \in [Procs -> RunDocs] :
          /\ \A p \in Procs, q \in Procs : p # q => docs[p] # docs[q]
          /\ runs = [p \in Procs |-> NewRun(docs[p])]
    /\ files = <<>>
    /\ pc = "runs"
    /\ input = ""
    /\ content = ""
    /\ protected_blocks = <<>>
    /\ restore_i = 0
    /\ TitleIdle
    /\ BoxIdle
    /\ converter \in Converters
    /\ raised = "none"
    /\ metadata = <<>>
    /\ title_slug = ""
    /\ tikz_blocks = <<>>
    /\ tikz_i = 0
    /\ image_counter = 0
    /\ svg_filenames = <<>>
    /\ iteration = 0
    /\ old_content = ""
    /\ call = 0
    /\ first_result = ""

\* the variables no step of a run changes
RunFrame == <<pc, input, mathVars, titleVars, boxVars, parseVars, listVars, convVars>>

\* metadata = self.extract_metadata(content); title_slug = self._create_slug(...);
\* self.tikz_converter = TikzConverter(filename_prefix=title_slug), whose
\* image_counter starts at 0 and whose output_dir is ./images
RunStart(p) ==
    /\ runs[p].pc = "parse_start"
    /\ runs' = [runs EXCEPT
                  ![p].title_slug =
                      create_slug(DictGet(extract_metadata(runs[p].content), "title", "documento")),
                  ![p].image_counter = 0,
                  ![p].pc = "parse_preamble"]
    /\ UNCHANGED <<files, RunFrame>>

\* the text passes of parse between the construction of the converter and
\* the graphics conversion (lines 32 to 47), one pass per step
TextPass(at, text) ==
    CASE at = "parse_preamble" -> remove_preamble(text)
      [] at = "parse_minipage" -> remove_minipage_environments(text)
      [] at = "parse_lstlisting" -> convert_lstlisting_to_code_blocks(text)
      [] at = "parse_vspace" -> remove_vspace_commands(text)
      [] at = "parse_equation" -> remove_equation_commands(text)
      [] at = "parse_tabular" -> convert_tabular_to_array(text)

AfterTextPass(at) ==
    CASE at = "parse_preamble" -> "parse_minipage"
      [] at = "parse_minipage" -> "parse_lstlisting"
      [] at = "parse_lstlisting" -> "parse_vspace"
      [] at = "parse_vspace" -> "parse_equation"
      [] at = "parse_equation" -> "parse_tabular"
      [] at = "parse_tabular" -> "parse_tikz"

TextPassPositions ==
    {"parse_preamble", "parse_minipage", "parse_lstlisting", "parse_vspace",
     "parse_equation", "parse_tabular"}

RunTextPass(p) ==
    /\ runs[p].pc \in TextPassPositions
    /\ runs' = [runs EXCEPT ![p].content = TextPass(runs[p].pc, runs[p].content),
                            ![p].pc = AfterTextPass(runs[p].pc)]
    /\ UNCHANGED <<files, RunFrame>>

\* convert_content: tikz_blocks = self.extract_tikz_blocks(content)
RunTikzExtract(p) ==
    /\ runs[p].pc = "parse_tikz"
    /\ runs' = [runs EXCEPT ![p].tikz_blocks = extract_tikz_blocks(runs[p].content),
                            ![p].tikz_i = 0,
                            ![p].svg_filenames = <<>>,
                            ![p].pc = "parse_tikz_loop"]
    /\ UNCHANGED <<files, RunFrame>>

\* an iteration of convert_content whose convert_tikz_to_svg returns: the
\* converter has written the picture to output_dir / svg_filename
RunTikzConverted(p) ==
    /\ runs[p].pc = "parse_tikz_loop"
    /\ runs[p].tikz_i < Len(runs[p].tikz_blocks)
    /\ LET tikz_code == runs[p].tikz_blocks[runs[p].tikz_i + 1]
           svg_filename == SvgFilename(runs[p].title_slug, runs[p].image_counter)
       IN  /\ files' = [f \in DOMAIN files \cup {svg_filename} |->
                            IF f = svg_filename THEN tikz_code ELSE files[f]]
           /\ runs' = [runs EXCEPT
                         ![p].svg_filenames = Append(runs[p].svg_filenames, svg_filename),
                         ![p].content = StrReplace(runs[p].content, TikzBlock(tikz_code),
                                                   ImageMarkdown(svg_filename)),
                         ![p].image_counter = runs[p].image_counter + 1,
                         ![p].tikz_i = runs[p].tikz_i + 1]
    /\ UNCHANGED RunFrame

\* an iteration of convert_content whose convert_tikz_to_svg raises
RunTikzFailed(p) ==
    /\ runs[p].pc = "parse_tikz_loop"
    /\ runs[p].tikz_i < Len(runs[p].tikz_blocks)
    /\ runs' = [runs EXCEPT ![p].image_counter = runs[p].image_counter + 1,
                            ![p].tikz_i = runs[p].tikz_i + 1]
    /\ UNCHANGED <<files, RunFrame>>

\* convert_content: return content, svg_filenames
RunTikzReturn(p) ==
    /\ runs[p].pc = "parse_tikz_loop"
    /\ runs[p].tikz_i >= Len(runs[p].tikz_blocks)
    /\ runs' = [runs EXCEPT ![p].pc = "parse_box"]
    /\ UNCHANGED <<files, RunFrame>>

\* self.box_converter.convert(content, content_processor=...) raises TypeError
RunBoxConvert(p) ==
    /\ runs[p].pc = "parse_box"
    /\ runs' = [runs EXCEPT ![p].raised = "TypeError", ![p].pc = "parse_raised"]
    /\ UNCHANGED <<files, RunFrame>>

NextRuns ==
    \E p \in Procs :
        \/ RunStart(p)
        \/ RunTextPass(p)
        \/ RunTikzExtract(p)
        \/ RunTikzConverted(p)
        \/ RunTikzFailed(p)
        \/ RunTikzReturn(p)
        \/ RunBoxConvert(p)

SpecRuns == InitRuns /\ [][NextRuns]_vars

(***************************************************************************)
(* Claims about parallel conversions.                                      *)
(***************************************************************************)
\* every run has ended
AllRunsEnded == \A p \in Procs : runs[p].pc = "parse_raised"

\* the picture a run rendered as its k-th file, when it runs alone: every
\* attempt takes the next value of image_counter, so the file numbered n
\* holds block n + 1
PictureAlone(p, svg_filename) ==
    LET n == CHOOSE m \in 0..Len(runs[p].tikz_blocks) :
                 svg_filename = SvgFilename(runs[p].title_slug, m)
    IN  runs[p].tikz_blocks[n + 1]

\* C20: conversions of different documents run in parallel by independent
\* pipeline instances share no state: under every interleaving, once the
\* runs have ended, every image file a run's document refers to holds the
\* picture that run rendered into it, as if the run had been alone.
C20_RunsIndependent ==
    AllRunsEnded =>
        \A p \in Procs :
            \A n \in 1..Len(runs[p].svg_filenames) :
                files[runs[p].svg_filenames[n]] = PictureAlone(p, runs[p].svg_filenames[n])

(***************************************************************************)
(* MathConverter.convert, one action per statement, called a second time   *)
(* on what the first call returned.                                        *)
(***************************************************************************)
WholeAlign == BS \o "begin{align}x" \o BS \o "end{align}"
ConvPieces ==
    {"$", "$a$", BS \o "(", BS \o ")", BS \o "[", BS \o "]", "a" \o BS \o ";b",
     BS \o "mbox{a}", WholeAlign, BS \o "begin{equation*}", BS \o "end{equation*}"}
ConvDocs == DocsOver(ConvPieces, MaxConvPieces)

InitConv ==
    /\ input \in ConvDocs
    /\ content = input
    /\ protected_blocks = <<>>
    /\ restore_i = 0
    /\ pc = "mc_protect"
    /\ TitleIdle
    /\ BoxIdle
    /\ ParseIdle
    /\ iteration = 0
    /\ old_content = ""
    /\ runs = <<>>
    /\ files = <<>>
    /\ call = 1
    /\ first_result = ""

\* what no pass of convert changes
ConvFrame == <<input, restore_i, titleVars, boxVars, parseVars, extVars>>

\* content, protected_blocks = self.protect_existing_math(content)
ConvProtect ==
    /\ pc = "mc_protect"
    /\ content' = protect_existing_math(content).text
    /\ protected_blocks' = protect_existing_math(content).blocks
    /\ pc' = "mc_align"
    /\ UNCHANGED ConvFrame

\* content = self.convert_align_environment(content)
ConvAlign ==
    /\ pc = "mc_align"
    /\ content' = convert_align_environment(content)
    /\ pc' = "mc_gather"
    /\ UNCHANGED <<protected_blocks, ConvFrame>>

\* content = self.convert_gather_environment(content)
ConvGather ==
    /\ pc = "mc_gather"
    /\ content' = convert_gather_environment(content)
    /\ pc' = "mc_multline"
    /\ UNCHANGED <<protected_blocks, ConvFrame>>

\* content = self.convert_multline_environment(content)
ConvMultline ==
    /\ pc = "mc_multline"
    /\ content' = convert_multline_environment(content)
    /\ pc' = "mc_equation"
    /\ UNCHANGED <<protected_blocks, ConvFrame>>

\* content = self.convert_equation_environment(content)
ConvEquation ==
    /\ pc = "mc_equation"
    /\ content' = convert_equation_environment(content)
    /\ pc' = "mc_display"
    /\ UNCHANGED <<protected_blocks, ConvFrame>>

\* content = self.convert_display_math(content)
ConvDisplay ==
    /\ pc = "mc_display"
    /\ content' = convert_display_math(content)
    /\ pc' = "mc_inline"
    /\ UNCHANGED <<protected_blocks, ConvFrame>>

\* content = self.convert_inline_math(content)
ConvInline ==
    /\ pc = "mc_inline"
    /\ content' = convert_inline_math(content)
    /\ pc' = "mc_clean"
    /\ UNCHANGED <<protected_blocks, ConvFrame>>

\* content = self.clean_math_for_katex(content);
\* content = self.handle_nested_brackets(content)
ConvClean ==
    /\ pc = "mc_clean"
    /\ content' = handle_nested_brackets(clean_math_for_katex(content))
    /\ pc' = "mc_restore"
    /\ UNCHANGED <<protected_blocks, ConvFrame>>

\* content = self.restore_protected_math(content, protected_blocks)
ConvRestore ==
    /\ pc = "mc_restore"
    /\ content' = restore_protected_math(content, protected_blocks)
    /\ pc' = "mc_return"
    /\ UNCHANGED <<protected_blocks, ConvFrame>>

\* return content, of the first call; convert is then called on the result
ConvCallAgain ==
    /\ pc = "mc_return"
    /\ call = 1
    /\ first_result' = content
    /\ call' = 2
    /\ protected_blocks' = <<>>
    /\ pc' = "mc_protect"
    /\ UNCHANGED <<input, content, restore_i, titleVars, boxVars, parseVars, listVars,
                   runVars>>

\* return content, of the second call
ConvReturn ==
    /\ pc = "mc_return"
    /\ call = 2
    /\ pc' = "mc_done"
    /\ UNCHANGED <<input, mathVars, titleVars, boxVars, parseVars, extVars>>

NextConv ==
    \/ ConvProtect
    \/ ConvAlign
    \/ ConvGather
    \/ ConvMultline
    \/ ConvEquation
    \/ ConvDisplay
    \/ ConvInline
    \/ ConvClean
    \/ ConvRestore
    \/ ConvCallAgain
    \/ ConvReturn

SpecConv == InitConv /\ [][NextConv]_vars

(***************************************************************************)
(* Claims about MathConverter.convert.                                     *)
(***************************************************************************)
\* the first call of convert has returned
ConvReturned == pc = "mc_return" /\ call = 1

\* the math spans of a text: the $...$ and $$...$$ spans that
\* protect_existing_math finds in it
MathSpans(s) ==
    {protect_existing_math(s).blocks[k] : k \in 1..Len(protect_existing_math(s).blocks)}

\* C21: convert applies the substitution table (\mbox{ to \text{, \; to \,)
\* inside the math of its input: no math span of the text convert returns
\* holds \mbox{ or \;.
C21_MathSubstituted ==
    ConvReturned =>
        \A span \in MathSpans(content) :
            /\ Find(span, BS \o "mbox{", 0) = -1
            /\ Find(span, BS \o ";", 0) = -1

\* the text holds no LaTeX command: it is made of letters and $ only, so
\* whatever math it holds is already in canonical delimiters
OnlyCanonical(s) == Find(s, BS, 0) = -1

\* the align environment of the text stands outside canonical math: no $
\* comes before it
AlignOutsideMath(s) ==
    /\ Find(s, WholeAlign, 0) # -1
    /\ Find(Slice(s, 0, Find(s, WholeAlign, 0)), "$", 0) = -1

\* the environment stands in the text between one pair of display
\* delimiters, its own begin and end markers kept
WrappedOnce(s) ==
    /\ Find(s, "$$\n" \o WholeAlign \o "\n$$", 0) # -1
    /\ Find(s, "$$\n$$", 0) = -1

\* C22: convert leaves the math that its input already holds in $...$ or
\* $$...$$ unchanged, and wraps an environment that stands outside canonical
\* math in one pair of display delimiters with its begin and end markers
\* kept inside.
C22_EnvironmentsWrapped ==
    ConvReturned =>
        /\ OnlyCanonical(input) => content = input
        /\ AlignOutsideMath(input) => WrappedOnce(content)

\* C29: convert is idempotent: when convert has run a second time, on the
\* text its first run returned, the text it returns is the text the first
\* run returned.
C29_ConvertIdempotent ==
    pc = "mc_done" => content = first_result

(***************************************************************************)
(* TexToMdxParser.remove_textcolor_outside_math (parser.py), one statement *)
(* a step and the restore loop one iteration a step.                       *)
(***************************************************************************)
MaxTextcolorPieces == 4

\* f"__MATH_BLOCK_{len(protected_blocks) - 1}__"
MathBlock(i) == "__MATH_BLOCK_" \o ToString(i) \o "__"

\* pattern = '\\textcolor{'
TextcolorPattern == BS \o "textcolor{"

\* \$\$.*?\$\$ (DOTALL), tried at offset i
TextcolorDisplayMatch(s, i) ==
    LET k == Find(s, "$$", i + 2)
    IN  IF StartsAt(s, i, "$$") /\ k # -1
        THEN [ok |-> TRUE, end |-> k + 2]
        ELSE [ok |-> FALSE, end |-> -1]

\* ([^\$\\]*(?:\\.[^\$\\]*)*)\$ from offset j on: the offset of the $ that
\* ends the group, or -1.  A backslash takes the character after it with
\* it, unless that is a newline or the end of the text.
RECURSIVE InlineBodyEnd(_, _)
InlineBodyEnd(s, j) ==
    IF j >= Len(s) THEN -1
    ELSE IF Ch(s, j) = "$" THEN j
    ELSE IF Ch(s, j) = BS
         THEN IF j + 1 < Len(s) /\ Ch(s, j + 1) # "\n" THEN InlineBodyEnd(s, j + 2) ELSE -1
    ELSE InlineBodyEnd(s, j + 1)

\* (?<!\$)\$(?!\$)([^\$\\]*(?:\\.[^\$\\]*)*)\$(?!\$), tried at offset i
TextcolorInlineMatch(s, i) ==
    LET k == InlineBodyEnd(s, i + 1)
    IN  IF /\ Ch(s, i) = "$"
           /\ Ch(s, i - 1) # "$"
           /\ Ch(s, i + 1) # "$"
           /\ k # -1
           /\ Ch(s, k + 1) # "$"
        THEN [ok |-> TRUE, end |-> k + 1]
        ELSE [ok |-> FALSE, end |-> -1]

\* re.sub(pattern, protect_display, content) and re.sub(pattern,
\* protect_inline, content), scanning from pos: each match is appended to
\* the blocks and replaced by the placeholder of its index
RECURSIVE TextcolorProtectFrom(_, _, _, _)
TextcolorProtectFrom(s, pos, blocks, display) ==
    LET At(i)  == IF display THEN TextcolorDisplayMatch(s, i) ELSE TextcolorInlineMatch(s, i)
        starts == {i \in pos..(Len(s) - 1) : At(i).ok}
    IN  IF starts = {} THEN [text |-> SliceFrom(s, pos), blocks |-> blocks]
        ELSE LET i    == Min(starts)
                 rest == TextcolorProtectFrom(s, At(i).end,
                                              Append(blocks, Slice(s, i, At(i).end)), display)
             IN  [text   |-> Slice(s, pos, i) \o MathBlock(Len(blocks)) \o rest.text,
                  blocks |-> rest.blocks]

\* the two inner while loops: the scan from offset i for the brace that
\* closes an argument, a backslash skipping the character after it
RECURSIVE ArgumentScan(_, _, _)
ArgumentScan(s, i, d) ==
    IF i < Len(s) /\ d > 0
    THEN IF Ch(s, i) = BS THEN ArgumentScan(s, i + 2, d)
         ELSE ArgumentScan(s, i + 1, IF Ch(s, i) = "{" THEN d + 1
                                     ELSE IF Ch(s, i) = "}" THEN d - 1 ELSE d)
    ELSE [i |-> i, depth |-> d]

\* the while True loop from pos on, and ''.join(result)
RECURSIVE TextcolorLoop(_, _)
TextcolorLoop(s, pos) ==
    LET idx   == Find(s, TextcolorPattern, pos)
        color == ArgumentScan(s, idx + Len(TextcolorPattern), 1)
        text  == ArgumentScan(s, color.i + 1, 1)
        kept  == Slice(s, pos, idx) \o TextcolorPattern
                     \o TextcolorLoop(s, idx + Len(TextcolorPattern))
    IN  IF idx = -1 THEN SliceFrom(s, pos)
        ELSE IF color.depth # 0 \/ color.i >= Len(s) \/ Ch(s, color.i) # "{" THEN kept
        ELSE IF text.depth = 0
             THEN Slice(s, pos, idx) \o Slice(s, color.i + 1, text.i - 1)
                      \o TextcolorLoop(s, text.i)
        ELSE kept

\* the documents: commands with both arguments, with the text argument
\* left open, and with no text argument, braces, letters and math delimiters
TextcolorPieces ==
    {TextcolorPattern \o "r}{", TextcolorPattern \o "b}{x}", TextcolorPattern \o "r}",
     "{", "}", "$", "a"}

TextcolorDocs == DocsOver(TextcolorPieces, MaxTextcolorPieces)

InitTextcolor ==
    /\ input \in TextcolorDocs
    /\ content = input
    /\ protected_blocks = <<>>
    /\ restore_i = 0
    /\ pc = "tc_display"
    /\ TitleIdle
    /\ BoxIdle
    /\ ParseIdle
    /\ ExtIdle

\* what no statement of remove_textcolor_outside_math changes
TextcolorFrame == <<extVars, input, titleVars, boxVars, parseVars>>

\* content = re.sub(r'\$\$.*?\$\$', protect_display, content, flags=re.DOTALL)
TextcolorProtectDisplay ==
    /\ pc = "tc_display"
    /\ content' = TextcolorProtectFrom(content, 0, protected_blocks, TRUE).text
    /\ protected_blocks' = TextcolorProtectFrom(content, 0, protected_blocks, TRUE).blocks
    /\ pc' = "tc_inline"
    /\ UNCHANGED <<TextcolorFrame, restore_i>>

\* content = re.sub(r'(?<!\$)\$(?!\$)(...)\$(?!\$)', protect_inline, content)
TextcolorProtectInline ==
    /\ pc = "tc_inline"
    /\ content' = TextcolorProtectFrom(content, 0, protected_blocks, FALSE).text
    /\ protected_blocks' = TextcolorProtectFrom(content, 0, protected_blocks, FALSE).blocks
    /\ pc' = "tc_scan"
    /\ UNCHANGED <<TextcolorFrame, restore_i>>

\* the while True loop and content = ''.join(result)
TextcolorScan ==
    /\ pc = "tc_scan"
    /\ content' = TextcolorLoop(content, 0)
    /\ restore_i' = 0
    /\ pc' = "tc_restore"
    /\ UNCHANGED <<TextcolorFrame, protected_blocks>>

\* content = content.replace(f"__MATH_BLOCK_{i}__", block), one iteration
TextcolorRestore ==
    /\ pc = "tc_restore"
    /\ restore_i < Len(protected_blocks)
    /\ content' = StrReplace(content, MathBlock(restore_i), protected_blocks[restore_i + 1])
    /\ restore_i' = restore_i + 1
    /\ UNCHANGED <<TextcolorFrame, pc, protected_blocks>>

\* return content
TextcolorReturn ==
    /\ pc = "tc_restore"
    /\ restore_i >= Len(protected_blocks)
    /\ pc' = "tc_done"
    /\ UNCHANGED <<TextcolorFrame, mathVars>>

NextTextcolor ==
    \/ TextcolorProtectDisplay
    \/ TextcolorProtectInline
    \/ TextcolorScan
    \/ TextcolorRestore
    \/ TextcolorReturn

SpecTextcolor == InitTextcolor /\ [][NextTextcolor]_vars

(***************************************************************************)
(* Claims about remove_textcolor_outside_math.                             *)
(***************************************************************************)
\* the command at offset idx of the text has its two arguments, each closed
\* by its balancing brace
WellFormedAt(s, idx) ==
    LET color == ArgumentScan(s, idx + Len(TextcolorPattern), 1)
        text  == ArgumentScan(s, color.i + 1, 1)
    IN  /\ StartsAt(s, idx, TextcolorPattern)
        /\ color.depth = 0
        /\ Ch(s, color.i) = "{"
        /\ text.depth = 0

\* the text holds a \textcolor command with both its arguments
HasWellFormed(s) == \E idx \in 0..Len(s) : WellFormedAt(s, idx)

\* the text holds no math span: it has no $
NoMath(s) == Find(s, "$", 0) = -1

\* the text is one inline math span: a $, a body without $, a $
OneMathSpan(s) ==
    /\ Len(s) >= 3
    /\ Ch(s, 0) = "$"
    /\ Ch(s, Len(s) - 1) = "$"
    /\ NoMath(Slice(s, 1, Len(s) - 1))

\* C23: when remove_textcolor_outside_math returns, a text without math
\* holds no \textcolor{color}{text} any more, and is unchanged when every
\* \textcolor in it was malformed; a text that is one math span is unchanged.
C23_TextcolorOutsideMath ==
    pc = "tc_done" =>
        /\ NoMath(input) => ~HasWellFormed(content)
        /\ NoMath(input) /\ ~HasWellFormed(input) => content = input
        /\ OneMathSpan(input) => content = input

(***************************************************************************)
(* A call of StructureConverter.process_texorpdfstring on its own.         *)
(***************************************************************************)
MaxTexorpdfPieces == 5

\* the documents: the command name with its opening brace, the braces
\* between and after the arguments, and arguments without, with one and with
\* two levels of braces
TexorpdfPieces ==
    {BS \o "texorpdfstring{", "}{", "}", "a", "{b}", "{b{c}}"}

TexorpdfDocs == DocsOver(TexorpdfPieces, MaxTexorpdfPieces)

InitTexorpdf ==
    /\ input \in TexorpdfDocs
    /\ content = input
    /\ protected_blocks = <<>>
    /\ restore_i = 0
    /\ pc = "tp_sub"
    /\ TitleIdle
    /\ BoxIdle
    /\ ParseIdle
    /\ ExtIdle

\* content = re.sub(pattern, replace_texorpdfstring, content); return content
TexorpdfSub ==
    /\ pc = "tp_sub"
    /\ content' = process_texorpdfstring(content)
    /\ pc' = "tp_done"
    /\ UNCHANGED <<extVars, input, protected_blocks, restore_i, titleVars, boxVars, parseVars>>

NextTexorpdf == TexorpdfSub

SpecTexorpdf == InitTexorpdf /\ [][NextTexorpdf]_vars

(***************************************************************************)
(* Claims about process_texorpdfstring.                                    *)
(***************************************************************************)
\* \texorpdfstring{A}{B} at offset i, each argument running to the brace
\* that balances its opening brace, whatever the depth of the braces inside
BalancedTexorpdfstring(s, i) ==
    LET name == BS \o "texorpdfstring{"
        a    == i + Len(name)
        arg1 == CloseScan(s, a, 1)
        arg2 == CloseScan(s, arg1.i + 1, 1)
    IN  IF /\ StartsAt(s, i, name)
           /\ arg1.depth = 0
           /\ Ch(s, arg1.i) = "{"
           /\ arg2.depth = 0
        THEN [ok |-> TRUE, end |-> arg2.i, out |-> Slice(s, a, arg1.i - 1)]
        ELSE NoMatch

\* the text with every brace-balanced \texorpdfstring{A}{B} replaced by A
ResolvedBalanced(s) ==
    SubFrom(s, [i \in 0..Len(s) |-> BalancedTexorpdfstring(s, i)], 0)

\* C24: process_texorpdfstring returns its text with every
\* \texorpdfstring{A}{B} replaced by A, the two arguments delimited by
\* brace-balanced matching at any nesting depth, and B discarded.
C24_TexorpdfstringResolved ==
    pc = "tp_done" => content = ResolvedBalanced(input)

(***************************************************************************)
(* A call of TexToMdxParser.remove_preamble on its own.                    *)
(***************************************************************************)
MaxPreamblePieces == 4

PreamblePieces == {BS \o "begin{document}", BS \o "end{document}", "a", " ", "\n"}

PreambleDocs == DocsOver(PreamblePieces, MaxPreamblePieces)

InitPreamble ==
    /\ input \in PreambleDocs
    /\ content = input
    /\ protected_blocks = <<>>
    /\ restore_i = 0
    /\ pc = "rp_call"
    /\ TitleIdle
    /\ BoxIdle
    /\ ParseIdle
    /\ ExtIdle

\* the whole of remove_preamble
PreambleRemove ==
    /\ pc = "rp_call"
    /\ content' = remove_preamble(content)
    /\ pc' = "rp_done"
    /\ UNCHANGED <<extVars, input, protected_blocks, restore_i, titleVars, boxVars, parseVars>>

NextPreamble == PreambleRemove

SpecPreamble == InitPreamble /\ [][NextPreamble]_vars

(***************************************************************************)
(* Claims about remove_preamble.                                           *)
(***************************************************************************)
\* where the first \begin{document} ends and the first \end{document}
\* starts in the input, -1 for a marker that is absent
BodyStart ==
    IF Find(input, BS \o "begin{document}", 0) = -1 THEN -1
    ELSE Find(input, BS \o "begin{document}", 0) + Len(BS \o "begin{document}")

BodyEnd == Find(input, BS \o "end{document}", 0)

BothMarkers == BodyStart # -1 /\ BodyEnd # -1

\* C25: remove_preamble returns the text between the two markers (its
\* surrounding whitespace aside) when both are present and the end marker
\* comes after the begin marker, and returns its input as it is when either
\* marker is absent.
C25_PreambleRemoved ==
    pc = "rp_done" =>
        /\ BothMarkers /\ BodyStart <= BodyEnd => content = Strip(Slice(input, BodyStart, BodyEnd))
        /\ ~BothMarkers => content = input

\* C25, as the code has it: the result is always stripped of the whitespace
\* around it.  With both markers it is the text from the end of the first
\* \begin{document} to the start of the first \end{document}, which is
\* nothing when that end marker comes first; with a marker absent it is the
\* whole input.
C25_PreambleStripped ==
    pc = "rp_done" =>
        /\ content = Strip(content)
        /\ BothMarkers /\ BodyStart <= BodyEnd => content = Strip(Slice(input, BodyStart, BodyEnd))
        /\ BothMarkers /\ BodyEnd < BodyStart => content = ""
        /\ ~BothMarkers => content = Strip(input)

\* a text with a marker absent and whitespace around it has been returned
C25_Witness ==
    /\ pc = "rp_done"
    /\ ~BothMarkers
    /\ BodyStart # -1
    /\ content # input
    /\ content # ""

(***************************************************************************)
(* A call of TexToMdxParser._create_slug on its own; input is the title.   *)
(***************************************************************************)
MaxSlugPieces == 4

\* the titles: runs of 24 and 25 letters, so that the cut at 50 characters
\* falls inside a word, on a hyphen or after one; capitals and digits;
\* blanks and punctuation; letters outside ASCII
SlugPieces ==
    {"abcdefghijklmnopqrstuvwx", "abcdefghijklmnopqrstuvwxy", "Z9", " ", "!-", "É", "ß²"}

SlugTitles == DocsOver(SlugPieces, MaxSlugPieces)

InitSlug ==
    /\ input \in SlugTitles
    /\ content = input
    /\ protected_blocks = <<>>
    /\ restore_i = 0
    /\ pc = "cs_call"
    /\ TitleIdle
    /\ BoxIdle
    /\ ParseIdle
    /\ ExtIdle

\* the whole of _create_slug
SlugCreate ==
    /\ pc = "cs_call"
    /\ title_slug' = create_slug(input)
    /\ pc' = "cs_done"
    /\ UNCHANGED <<extVars, input, mathVars, titleVars, boxVars, converter, raised, metadata,
                   tikzVars>>

NextSlug == SlugCreate

SpecSlug == InitSlug /\ [][NextSlug]_vars

(***************************************************************************)
(* Claims about _create_slug.                                              *)
(***************************************************************************)
\* C26: the slug _create_slug returns is made of lowercase ASCII letters,
\* digits and hyphens only, has no two hyphens in a row, neither starts nor
\* ends with a hyphen, and is at most 50 characters long.
C26_SlugShape ==
    pc = "cs_done" =>
        /\ \A i \in 0..(Len(title_slug) - 1) : Ch(title_slug, i) \in SlugChars \cup {"-"}
        /\ Find(title_slug, "--", 0) = -1
        /\ Ch(title_slug, 0) # "-"
        /\ Ch(title_slug, Len(title_slug) - 1) # "-"
        /\ Len(title_slug) <= 50

\* a slug has been cut: the title gave more than 50 characters, with a
\* hyphen as the 50th, and held letters outside ASCII
C26_Witness ==
    /\ pc = "cs_done"
    /\ Ch(Hyphenate(ToLower(AsciiFold(input)), FALSE), 49) = "-"
    /\ Len(StripHyphens(Hyphenate(ToLower(AsciiFold(input)), FALSE))) > 50
    /\ Find(input, "É", 0) # -1
    /\ Len(title_slug) = 49

(***************************************************************************)
(* Claims about the loop of convert_lists.                                 *)
(***************************************************************************)
\* what the loop has left to do: the iterations it may still start, three
\* steps each, then the removal of the tags
ListRank ==
    CASE pc = "cl_loop"      -> 3 * (MaxListIterations - iteration) + 2
      [] pc = "cl_enumerate" -> 3 * (MaxListIterations - iteration) + 1
      [] pc = "cl_check"     -> 3 * (MaxListIterations - iteration)
      [] pc = "cl_tags"      -> 1
      [] OTHER               -> 0

\* every step of convert_lists lowers the rank; an iteration whose two
\* substitutions left the text unchanged is the last one
ListStep ==
    /\ ListRank' < ListRank
    /\ pc = "cl_check" /\ content = old_content => pc' = "cl_tags" /\ iteration' = iteration

\* the loop is entered only with an iteration to spare, and after the first
\* iteration only when the iteration before changed the text
ListLoopGuard ==
    /\ iteration <= MaxListIterations
    /\ pc = "cl_loop" => iteration < MaxListIterations
    /\ pc = "cl_loop" /\ iteration > 0 => content # old_content

\* C27: the loop of convert_lists terminates: every step lowers a rank that
\* is a natural number, a running loop always has a step to take, it starts
\* at most 10 iterations, and it stops at the first iteration whose itemize
\* and enumerate substitutions leave the text unchanged.
C27_ListLoopTerminates ==
    /\ [][ListStep]_vars
    /\ [](ListLoopGuard)

\* the loop has stopped at its third iteration, the first one that changed
\* nothing, after two that converted a list each
C27_Witness ==
    /\ pc = "cl_tags"
    /\ iteration = 2
    /\ content = old_content
    /\ content # input

(***************************************************************************)
(* Claims about the file names of TikzConverter.                           *)
(***************************************************************************)
\* a rendering attempt: an iteration of the loop of convert_content.  It is
\* given the file name of the counter's value and leaves the counter one
\* higher, whether it succeeds (the name is appended to svg_filenames) or
\* fails.
AttemptAdvances ==
    tikz_i' = tikz_i + 1 =>
        /\ image_counter' = image_counter + 1
        /\ svg_filenames' # svg_filenames =>
               svg_filenames' = Append(svg_filenames, SvgFilename(title_slug, image_counter))

\* the names given out so far are those of the counter values below the
\* counter, one attempt each, and the names of the successful attempts are
\* pairwise distinct and differ from the name the next attempt will get
NamesDistinct ==
    /\ image_counter = tikz_i
    /\ \A j, k \in 1..Len(svg_filenames) : j # k => svg_filenames[j] # svg_filenames[k]
    /\ \A k \in 1..Len(svg_filenames) :
           /\ svg_filenames[k] # SvgFilename(title_slug, image_counter)
           /\ \E c \in 0..(image_counter - 1) : svg_filenames[k] = SvgFilename(title_slug, c)

\* C28: within one converter every rendering attempt gets a file name of its
\* own: each attempt, successful or failed, advances the image counter by
\* one, so no name is given out twice.
C28_DistinctFilenames ==
    /\ [][AttemptAdvances]_vars
    /\ [](NamesDistinct)

\* three attempts were made, one failed before a later one succeeded
C28_Witness ==
    /\ TikzReturned
    /\ image_counter = 3
    /\ Len(svg_filenames) = 2
    /\ svg_filenames[2] = SvgFilename(title_slug, 2)

====
